---- MODULE Spec2Model ----
(***************************************************************************)
(* Model of the SNMP polling engine of NMSimple                            *)
(* (src/src/network/snmp_worker.py, class SNMPWorker).                     *)
(*                                                                         *)
(* Strings are sequences of one-character strings, so that formatting,     *)
(* startswith, split and int() are computed, not assumed.  A Python dict   *)
(* is a sequence of [k, v] records with unique keys in insertion order.    *)
(***************************************************************************)
EXTENDS Integers, Sequences, FiniteSets, TLC

\* ------------------------------------------------------------------ bounds
\* largest interface index the device of the fetch model answers with
MaxIndex == 1
\* most core columns for which the device of the fetch model sends a row
MaxLive == 1
\* largest interface index in the walk results of the aggregation model
MaxIndexA == 2
\* most core columns with a non-empty walk result in the aggregation model
MaxLiveA == 2
\* largest interface index the device of the stand-alone table walk sends
MaxIndexW == 2
\* longest response page the device of the stand-alone table walk sends
MaxPageLenW == 2
\* largest max_interfaces of the stand-alone table walk
MaxRowsW == 3

\* ------------------------------------------------------------------- text
Digits == <<"0", "1", "2", "3", "4", "5", "6", "7", "8", "9">>

RECURSIVE NatText(_)
\* str(n) for n >= 0
NatText(n) ==
    IF n < 10 THEN <<Digits[n + 1]>>
    ELSE NatText(n \div 10) \o <<Digits[(n % 10) + 1]>>

\* str(n) of a Python int
IntText(n) == IF n < 0 THEN <<"-">> \o NatText(-n) ELSE NatText(n)

RECURSIVE OidText(_)
\* str(name) of an object identifier: its segments joined by dots
OidText(o) ==
    IF Len(o) = 0 THEN <<>>
    ELSE IF Len(o) = 1 THEN NatText(o[1])
    ELSE OidText(SubSeq(o, 1, Len(o) - 1)) \o <<".">> \o NatText(o[Len(o)])

\* s.startswith(p)
StartsWith(s, p) == Len(p) <= Len(s) /\ SubSeq(s, 1, Len(p)) = p

RECURSIVE LastSegment(_)
\* s.split('.')[-1]
LastSegment(s) ==
    IF Len(s) = 0 THEN <<>>
    ELSE IF s[Len(s)] = "." THEN <<>>
    ELSE LastSegment(SubSeq(s, 1, Len(s) - 1)) \o <<s[Len(s)]>>

DigitValue(c) == CHOOSE d \in 0..9 : Digits[d + 1] = c

IsDigitText(s) == Len(s) > 0 /\ \A i \in 1..Len(s) : \E d \in 1..10 : Digits[d] = s[i]

RECURSIVE DigitsValue(_)
DigitsValue(s) ==
    IF Len(s) = 0 THEN 0
    ELSE 10 * DigitsValue(SubSeq(s, 1, Len(s) - 1)) + DigitValue(s[Len(s)])

\* int(s) of a str: [ok |-> FALSE] stands for ValueError
ParseInt(s) ==
    IF IsDigitText(s) THEN [ok |-> TRUE, n |-> DigitsValue(s)]
    ELSE IF Len(s) > 1 /\ s[1] = "-" /\ IsDigitText(SubSeq(s, 2, Len(s)))
         THEN [ok |-> TRUE, n |-> 0 - DigitsValue(SubSeq(s, 2, Len(s)))]
    ELSE [ok |-> FALSE, n |-> 0]

\* ------------------------------------------------------------------ dicts
DictKeys(d) == [i \in 1..Len(d) |-> d[i].k]

DictHas(d, key) == \E i \in 1..Len(d) : d[i].k = key

DictGet(d, key, default) ==
    IF DictHas(d, key) THEN d[CHOOSE i \in 1..Len(d) : d[i].k = key].v ELSE default

\* d[key] = value : an existing key keeps its position, a new key goes last
DictSet(d, key, value) ==
    IF DictHas(d, key)
    THEN [i \in 1..Len(d) |-> IF d[i].k = key THEN [k |-> key, v |-> value] ELSE d[i]]
    ELSE Append(d, [k |-> key, v |-> value])

KeySet(d) == {d[i].k : i \in 1..Len(d)}

\* ------------------------------------------------------------- OID tables
core_oids ==
    <<"ifDescr", "ifOperStatus", "ifAdminStatus", "ifInOctets",
      "ifOutOctets", "ifSpeed", "ifType", "ifPhysAddress">>

CoreNames == {core_oids[i] : i \in 1..Len(core_oids)}

ifEntry == <<1, 3, 6, 1, 2, 1, 2, 2, 1>>

OID_MAPPING ==
    [ifDescr       |-> ifEntry \o <<2>>,
     ifOperStatus  |-> ifEntry \o <<8>>,
     ifAdminStatus |-> ifEntry \o <<7>>,
     ifInOctets    |-> ifEntry \o <<10>>,
     ifOutOctets   |-> ifEntry \o <<16>>,
     ifSpeed       |-> ifEntry \o <<5>>,
     ifType        |-> ifEntry \o <<3>>,
     ifPhysAddress |-> ifEntry \o <<6>>]

\* ----------------------------------------------------------- raw values
\* A raw protocol value: an Integer n, an OctetString of bytes b, a Null
\* (int() raises TypeError), or a Faulty object whose coercion raises an
\* exception that is neither ValueError nor TypeError.
RawInt(n) == [t |-> "Integer", n |-> n, b |-> <<>>]
RawOctets(b) == [t |-> "OctetString", n |-> 0, b |-> b]
RawNull == [t |-> "Null", n |-> 0, b |-> <<>>]
RawFaulty == [t |-> "Faulty", n |-> 0, b |-> <<>>]
\* an object identifier sent as a value: it has no __int__, so int() raises
\* TypeError; b holds its arcs
RawOid(b) == [t |-> "ObjectIdentifier", n |-> 0, b |-> b]

HexDigits == <<"0", "1", "2", "3", "4", "5", "6", "7", "8", "9",
               "a", "b", "c", "d", "e", "f">>

\* f'{b:02x}'
\* f'{b:x}', without the padding to two digits
Hex2_NoPad(b) ==
    IF b < 16 THEN <<HexDigits[b + 1]>>
    ELSE <<HexDigits[(b \div 16) + 1], HexDigits[(b % 16) + 1]>>

Hex2(b) == <<HexDigits[(b \div 16) + 1], HexDigits[(b % 16) + 1]>>

\* the character of one byte of an OctetString: ASCII digits and letters
\* a..f are kept, every other byte is shown as "?"
ByteChar(b) ==
    IF b \in 48..57 THEN Digits[b - 47]
    ELSE IF b \in 97..102 THEN HexDigits[b - 86]
    ELSE "?"

\* int(value): [exc |-> "none"] with the integer, or the exception raised
IntOf(value) ==
    CASE value.t = "Integer" -> [exc |-> "none", n |-> value.n]
      [] value.t = "OctetString" ->
            LET p == ParseInt([i \in 1..Len(value.b) |-> ByteChar(value.b[i])])
            IN  IF p.ok THEN [exc |-> "none", n |-> p.n]
                ELSE [exc |-> "ValueError", n |-> 0]
      [] value.t = "Null" -> [exc |-> "TypeError", n |-> 0]
      [] value.t = "ObjectIdentifier" -> [exc |-> "TypeError", n |-> 0]
      [] OTHER -> [exc |-> "Exception", n |-> 0]

\* str(value)
StrOf(value) ==
    CASE value.t = "Integer" -> [exc |-> "none", s |-> IntText(value.n)]
      [] value.t = "OctetString" ->
            [exc |-> "none", s |-> [i \in 1..Len(value.b) |-> ByteChar(value.b[i])]]
      [] value.t = "Null" -> [exc |-> "none", s |-> <<>>]
      [] value.t = "ObjectIdentifier" -> [exc |-> "none", s |-> OidText(value.b)]
      [] OTHER -> [exc |-> "Exception", s |-> <<>>]

RECURSIVE JoinColon(_)
\* ':'.join(f'{b:02x}' for b in octets)
JoinColon(octets) ==
    IF Len(octets) = 0 THEN <<>>
    ELSE IF Len(octets) = 1 THEN Hex2(octets[1])
    ELSE JoinColon(SubSeq(octets, 1, Len(octets) - 1)) \o <<":">> \o Hex2(octets[Len(octets)])

IntNames == {"ifOperStatus", "ifAdminStatus", "ifType"}
CounterNames == {"ifInOctets", "ifOutOctets", "ifSpeed"}

\* _convert_snmp_value: [exc |-> "none", v |-> converted] or the exception
\* that leaves the method
_convert_snmp_value(oid_name, value) ==
    LET i == IntOf(value)
        s == StrOf(value)
        \* the handler of lines 699-705
        handler(e) ==
            IF e \in {"ValueError", "TypeError"}
            THEN IF oid_name \in IntNames \cup CounterNames
                 THEN [exc |-> "none", v |-> 0]
                 ELSE IF s.exc = "none" THEN [exc |-> "none", v |-> s.s]
                      ELSE [exc |-> s.exc, v |-> 0]
            ELSE [exc |-> e, v |-> 0]
    IN  IF oid_name \in IntNames
        THEN IF i.exc = "none" THEN [exc |-> "none", v |-> i.n] ELSE handler(i.exc)
        ELSE IF oid_name \in CounterNames
        THEN IF i.exc = "none" THEN [exc |-> "none", v |-> i.n]
             ELSE IF i.exc \in {"ValueError", "TypeError"} THEN [exc |-> "none", v |-> 0]
             ELSE handler(i.exc)
        ELSE IF oid_name = "ifPhysAddress" /\ value.t = "OctetString" /\ Len(value.b) = 6
        THEN [exc |-> "none", v |-> JoinColon(value.b)]
        ELSE IF s.exc = "none" THEN [exc |-> "none", v |-> s.s] ELSE handler(s.exc)

\* ------------------------------------------------------------ table walk
\* the reply to one request: a page of varBinds, an error indication, an
\* error status, or an exception raised by the call
Reply(kind, varBinds) == [kind |-> kind, varBinds |-> varBinds]

ErrorReplies == {Reply("errorIndication", <<>>), Reply("errorStatus", <<>>), Reply("raise", <<>>)}

VarBind(name, val) == [name |-> name, val |-> val]

\* the instance of column oid_name for interface i
InName(oid_name, i) == OID_MAPPING[oid_name] \o <<i>>

\* an instance of the object that follows the table rooted at base
NextColumn(base) == SubSeq(base, 1, Len(base) - 1) \o <<base[Len(base)] + 1, 1>>

\* an instance of the next column of the table: outside the walked column
OutName(oid_name) == NextColumn(OID_MAPPING[oid_name])

\* an instance of the sibling column whose number is ten times the walked
\* one (column 2 against column 20): its dotted text begins with the text
\* of the walked prefix
SiblingName(oid_name, i) ==
    LET base == OID_MAPPING[oid_name]
    IN  SubSeq(base, 1, Len(base) - 1) \o <<base[Len(base)] * 10, i>>

\* the locals of _bulk_fetch_single_oid
NewWalk(oid_name, max_interfaces) ==
    [status |-> IF 0 < max_interfaces THEN "running" ELSE "done",
     oid_data |-> <<>>,
     interfaces_found |-> 0,
     current_oid |-> OID_MAPPING[oid_name]]

RECURSIVE ScanBatch(_, _, _, _)
\* the for loop over one page, from varBinds[i] on; w holds the locals of
\* the walk, with found_in_batch, and raised: an exception left the loop
ScanBatch(oid_name, varBinds, i, w) ==
    IF i > Len(varBinds) THEN w
    ELSE LET name == varBinds[i].name
             name_str == OidText(name)
         IN  IF ~StartsWith(name_str, OidText(OID_MAPPING[oid_name]))
             THEN w
             ELSE LET if_index == ParseInt(LastSegment(name_str))
                      c == _convert_snmp_value(oid_name, varBinds[i].val)
                  IN  IF ~if_index.ok \/ c.exc \in {"ValueError", "IndexError"}
                      THEN ScanBatch(oid_name, varBinds, i + 1, w)
                      ELSE IF c.exc # "none"
                      THEN [w EXCEPT !.raised = TRUE]
                      ELSE ScanBatch(oid_name, varBinds, i + 1,
                               [w EXCEPT !.oid_data = DictSet(@, if_index.n, c.v),
                                         !.interfaces_found = @ + 1,
                                         !.found_in_batch = TRUE,
                                         !.current_oid = name])

\* the while loop without its test: it is left only by a break
WalkLoopTest_NoLimit(w, max_interfaces) == TRUE

\* the test of the while loop, evaluated after a page that did not break
WalkLoopTest(w, max_interfaces) == w.interfaces_found < max_interfaces

\* one iteration of the while loop on reply r, where an error indication
\* or an error status makes the walk return nothing
WalkPage_ErrorDrops(oid_name, w, max_interfaces, r) ==
    IF r.kind # "page" \/ Len(r.varBinds) = 0
    THEN [w EXCEPT !.status = "done",
                   !.oid_data = IF r.kind \in {"errorIndication", "errorStatus"}
                                THEN <<>> ELSE @]
    ELSE LET s == ScanBatch(oid_name, r.varBinds, 1,
                            [status |-> w.status, oid_data |-> w.oid_data,
                             interfaces_found |-> w.interfaces_found,
                             current_oid |-> w.current_oid,
                             found_in_batch |-> FALSE, raised |-> FALSE])
             done == s.raised \/ ~s.found_in_batch \/ ~WalkLoopTest(s, max_interfaces)
         IN  [status |-> IF done THEN "done" ELSE "running",
              oid_data |-> s.oid_data,
              interfaces_found |-> s.interfaces_found,
              current_oid |-> s.current_oid]

\* one iteration of the while loop of _bulk_fetch_single_oid on reply r; an
\* exception is swallowed by the handler of lines 374-375, so the returned
\* locals do not record it
WalkPage(oid_name, w, max_interfaces, r) ==
    IF r.kind # "page" \/ Len(r.varBinds) = 0
    THEN [w EXCEPT !.status = "done"]
    ELSE LET s == ScanBatch(oid_name, r.varBinds, 1,
                            [status |-> w.status, oid_data |-> w.oid_data,
                             interfaces_found |-> w.interfaces_found,
                             current_oid |-> w.current_oid,
                             found_in_batch |-> FALSE, raised |-> FALSE])
             done == s.raised \/ ~s.found_in_batch \/ ~WalkLoopTest(s, max_interfaces)
         IN  [status |-> IF done THEN "done" ELSE "running",
              oid_data |-> s.oid_data,
              interfaces_found |-> s.interfaces_found,
              current_oid |-> s.current_oid]

\* ---------------------------------------------------------------- pages
RECURSIVE SeqsUpTo(_, _)
\* all sequences over S of length at most n
SeqsUpTo(S, n) ==
    IF n = 0 THEN {<<>>}
    ELSE LET shorter == SeqsUpTo(S, n - 1)
         IN  shorter \cup {Append(p, x) : p \in shorter, x \in S}

\* a raw value of the kind the column carries on a well-behaved device
GoodRaw(oid_name) ==
    IF oid_name = "ifDescr" THEN RawOctets(<<101>>)
    ELSE IF oid_name = "ifPhysAddress" THEN RawOctets(<<0, 26, 43, 60, 77, 94>>)
    ELSE RawInt(1)

Indices == 1..MaxIndex

\* ------------------------------------------------------------ state
VARIABLES
    pc,               \* position of run / _fetch_interface_data
    emitted,          \* the signals emitted by run, in order
    last_req,         \* the request issued by the last step ("none" if none)
    probe_reply,      \* how the scalar read of _test_connectivity ended
    connected,        \* result of _test_connectivity: "none", "true", "false"
    interface_count,  \* local of _fetch_interface_data (0 before it is set)
    est,              \* locals of _estimate_interface_count
    walk,             \* locals of the eight _bulk_fetch_single_oid tasks
    interface_data,   \* local of _fetch_interface_data
    vlan,             \* locals of the _get_vlan_data_bulk task
    power,            \* locals of the _get_power_data_bulk task
    tw,               \* a table walk run on its own
    device,           \* the tables of a device that answers the same way each time
    conv,             \* one call of _convert_snmp_value
    hist              \* how the requests of the count estimation ended, what
                      \* each table of a resolver supplied, and the order in
                      \* which concurrent tasks finished

vars == <<pc, emitted, last_req, probe_reply, connected, interface_count, est, walk,
          interface_data, vlan, power, tw, device, conv, hist>>

\* the variables only the specifications of single components use
aux == <<device, conv, hist>>

NoDevice == [kind |-> "none"]

NoConv == [oid_name |-> "none", value |-> [t |-> "Null", n |-> 0, b |-> <<>>],
           called |-> FALSE, exc |-> "none", v |-> 0]

NoHist == [count |-> "none", n |-> 0, first |-> "none",
           pvid |-> <<>>, cisco |-> <<>>, power1 |-> <<>>, power2 |-> <<>>,
           order |-> <<>>, resolved_first |-> "none",
           est_requests |-> 0, est_last |-> "none", observed |-> 0,
           asked |-> <<>>, names_end |-> "none"]

NoAux == device = NoDevice /\ conv = NoConv /\ hist = NoHist

NoWalk == [status |-> "none", oid_data |-> <<>>, interfaces_found |-> 0,
           current_oid |-> <<>>]

NoVlan == [pc |-> "none", vlan_data |-> <<>>, vlan_names |-> <<>>]

NoPower == [pc |-> "none", power_data |-> <<>>]

NoTw == [oid_name |-> "ifDescr", max_interfaces |-> 0, w |-> NoWalk,
         requests |-> 0, seen_out |-> FALSE, last |-> "none",
         late_row |-> FALSE, foreign_row |-> FALSE]

\* ---------------------------------------------------------------- run
Signal(sig, list, msg) == [sig |-> sig, list |-> list, msg |-> msg]

\* run without the test of line 87
RunDeliver_NoTest(result) == Signal("success", result, "")

\* lines 87-90 of run: what is emitted for the value _fetch_interface_data
\* returned
RunDeliver(result) ==
    IF result # <<>>
    THEN Signal("success", result, "")
    ELSE Signal("error", <<>>, "No interface data retrieved")

\* lines 92-94 of run
RunFailed == Signal("error", <<>>, "SNMP operation failed")

Init ==
    /\ pc = "Idle"
    /\ emitted = <<>>
    /\ last_req = "none"
    /\ probe_reply = "none"
    /\ connected = "none"
    /\ interface_count = 0
    /\ est = [count |-> 0, iter |-> 0]
    /\ walk = [f \in CoreNames |-> NoWalk]
    /\ interface_data = <<>>
    /\ vlan = NoVlan
    /\ power = NoPower
    /\ tw = NoTw
    /\ NoAux

\* run with line 96 after the try statement instead of in its finally
\* clause: a fault that leaves the try statement skips it
RunStart_NoFinally ==
    /\ pc = "Idle"
    /\ \E loop_fault \in BOOLEAN :
          IF loop_fault
          THEN /\ emitted' = Append(emitted, RunFailed)
               /\ pc' = "Done"
          ELSE /\ pc' = "Probing"
               /\ UNCHANGED emitted
    /\ last_req' = "none"
    /\ UNCHANGED <<probe_reply, connected, interface_count, est, walk, interface_data,
                   vlan, power, tw>>
    /\ UNCHANGED aux

\* run, lines 80-85: creating the event loop may raise (OSError)
RunStart ==
    /\ pc = "Idle"
    /\ \E loop_fault \in BOOLEAN :
          IF loop_fault
          THEN /\ emitted' = Append(emitted, RunFailed)
               /\ pc' = "Finally"
          ELSE /\ pc' = "Probing"
               /\ UNCHANGED emitted
    /\ last_req' = "none"
    /\ UNCHANGED <<probe_reply, connected, interface_count, est, walk, interface_data,
                   vlan, power, tw>>
    /\ UNCHANGED aux

\* the replies to a scalar read (get_cmd)
ScalarReplies(vals) ==
    ErrorReplies \cup {Reply("page", <<>>)}
        \cup {Reply("page", <<VarBind(<<>>, v)>>) : v \in vals}

\* _test_connectivity without the branch of lines 185-187
ProbeResult_NoStatus(r) == r.kind = "errorStatus" \/ r.kind = "page"

\* _test_connectivity, lines 180-195, on reply r
ProbeResult(r) ==
    /\ r.kind = "page"
    /\ Len(r.varBinds) > 0
    /\ StrOf(r.varBinds[1].val).exc = "none"

\* _test_connectivity and lines 104-105; create_raise: building the
\* transport target raises before any request is sent
Probe ==
    /\ pc = "Probing"
    /\ \E create_raise \in BOOLEAN, r \in ScalarReplies({RawOctets(<<101>>), RawFaulty}) :
          LET ok == ~create_raise /\ ProbeResult(r)
          IN  /\ last_req' = IF create_raise THEN "none" ELSE "probe"
              /\ probe_reply' = IF create_raise \/ (r.kind = "page" /\ ~ProbeResult(r))
                                THEN "raise" ELSE r.kind
              /\ connected' = IF ok THEN "true" ELSE "false"
              /\ IF ok
                 THEN /\ pc' = "Counting"
                      /\ UNCHANGED emitted
                 ELSE /\ pc' = "Finally"
                      /\ emitted' = Append(emitted, RunDeliver(<<>>))
    /\ UNCHANGED <<interface_count, est, walk, interface_data, vlan, power, tw>>
    /\ UNCHANGED aux

Min(a, b) == IF a < b THEN a ELSE b
Max(a, b) == IF a > b THEN a ELSE b

\* values of the interface-count scalar the modelled device may hold
CountValues == {RawInt(2), RawNull}

\* _get_interface_count without the cap of line 220
CountResult_NoCap(r) ==
    IF r.kind = "raise" THEN [fallback |-> FALSE, n |-> 20]
    ELSE IF r.kind # "page" THEN [fallback |-> TRUE, n |-> 0]
    ELSE IF Len(r.varBinds) = 0 THEN [fallback |-> FALSE, n |-> 20]
    ELSE LET count == IntOf(r.varBinds[1].val)
         IN  IF count.exc # "none" THEN [fallback |-> FALSE, n |-> 20]
             ELSE [fallback |-> FALSE, n |-> count.n + 5]

\* _get_interface_count, lines 215-227, on reply r:
\* [fallback |-> TRUE] when _estimate_interface_count is awaited
CountResult(r) ==
    IF r.kind = "raise" THEN [fallback |-> FALSE, n |-> 20]
    ELSE IF r.kind # "page" THEN [fallback |-> TRUE, n |-> 0]
    ELSE IF Len(r.varBinds) = 0 THEN [fallback |-> FALSE, n |-> 20]
    ELSE LET count == IntOf(r.varBinds[1].val)
         IN  IF count.exc # "none" THEN [fallback |-> FALSE, n |-> 20]
             ELSE [fallback |-> FALSE, n |-> Min(count.n + 5, 64)]

\* _get_interface_count up to its return or to the call of the fallback,
\* on reply r; create_raise: building the target raised
CountStep(create_raise, r) ==
    /\ LET c == IF create_raise THEN [fallback |-> FALSE, n |-> 20] ELSE CountResult(r)
       IN  /\ last_req' = IF create_raise THEN "none" ELSE "count"
           /\ IF c.fallback
              THEN /\ pc' = "Estimating"
                   /\ UNCHANGED interface_count
              ELSE /\ pc' = "BulkFetch"
                   /\ interface_count' = c.n
    /\ est' = [count |-> 0, iter |-> 0]

Count ==
    /\ pc = "Counting"
    /\ \E create_raise \in BOOLEAN, r \in ScalarReplies(CountValues) :
          CountStep(create_raise, r)
    /\ UNCHANGED <<emitted, probe_reply, connected, walk, interface_data, vlan, power, tw>>
    /\ UNCHANGED aux

\* the loop body of _estimate_interface_count returning the bare count,
\* without the floor of line 265
EstimateIter_NoFloor(e, r) ==
    IF r.kind = "raise" THEN [ret |-> TRUE, n |-> 20, e |-> e]
    ELSE IF r.kind # "page" THEN [ret |-> TRUE, n |-> e.count, e |-> e]
    ELSE IF Len(r.varBinds) = 0 THEN [ret |-> TRUE, n |-> 20, e |-> e]
    ELSE IF ~StartsWith(OidText(r.varBinds[1].name), OidText(OID_MAPPING["ifDescr"]))
    THEN [ret |-> TRUE, n |-> e.count, e |-> e]
    ELSE LET e2 == [count |-> e.count + 1, iter |-> e.iter + 1]
         IN  IF e2.iter < 32 THEN [ret |-> FALSE, n |-> 0, e |-> e2]
             ELSE [ret |-> TRUE, n |-> e2.count, e |-> e2]

\* the loop body of _estimate_interface_count in a loop without the
\* bound of line 242
EstimateIter_NoBound(e, r) ==
    IF r.kind = "raise" THEN [ret |-> TRUE, n |-> 20, e |-> e]
    ELSE IF r.kind # "page" THEN [ret |-> TRUE, n |-> Max(e.count, 10), e |-> e]
    ELSE IF Len(r.varBinds) = 0 THEN [ret |-> TRUE, n |-> 20, e |-> e]
    ELSE IF ~StartsWith(OidText(r.varBinds[1].name), OidText(OID_MAPPING["ifDescr"]))
    THEN [ret |-> TRUE, n |-> Max(e.count, 10), e |-> e]
    ELSE [ret |-> FALSE, n |-> 0, e |-> [count |-> e.count + 1, iter |-> e.iter + 1]]

\* one iteration of the loop of _estimate_interface_count on reply r:
\* [ret |-> TRUE, n] when the method returns n
EstimateIter(e, r) ==
    IF r.kind = "raise" THEN [ret |-> TRUE, n |-> 20, e |-> e]
    ELSE IF r.kind # "page" THEN [ret |-> TRUE, n |-> Max(e.count, 10), e |-> e]
    ELSE IF Len(r.varBinds) = 0 THEN [ret |-> TRUE, n |-> 20, e |-> e]
    ELSE IF ~StartsWith(OidText(r.varBinds[1].name), OidText(OID_MAPPING["ifDescr"]))
    THEN [ret |-> TRUE, n |-> Max(e.count, 10), e |-> e]
    ELSE LET e2 == [count |-> e.count + 1, iter |-> e.iter + 1]
         IN  IF e2.iter < 32 THEN [ret |-> FALSE, n |-> 0, e |-> e2]
             ELSE [ret |-> TRUE, n |-> Max(e2.count, 10), e |-> e2]

\* replies to a next_cmd on the description table
EstimateReplies ==
    ErrorReplies \cup {Reply("page", <<>>)}
        \cup {Reply("page", <<VarBind(OutName("ifDescr"), GoodRaw("ifDescr"))>>)}
        \cup {Reply("page", <<VarBind(InName("ifDescr", i), GoodRaw("ifDescr"))>>) : i \in Indices}

HasRows(oid_name, r) ==
    \E i \in 1..Len(r.varBinds) :
        StartsWith(OidText(r.varBinds[i].name), OidText(OID_MAPPING[oid_name]))

\* _estimate_interface_count: building the target (first iteration only)
\* and one next_cmd round trip, on reply r
EstimateRound(create_raise, r) ==
    LET x == IF create_raise THEN [ret |-> TRUE, n |-> 20, e |-> est]
             ELSE EstimateIter(est, r)
    IN  /\ last_req' = IF create_raise THEN "none" ELSE "estimate"
        /\ IF x.ret
           THEN /\ pc' = "BulkFetch"
                /\ interface_count' = x.n
                /\ est' = [count |-> 0, iter |-> 0]
           ELSE /\ est' = x.e
                /\ UNCHANGED <<pc, interface_count>>

\* the description table of the device of the fetch model has at most one
\* row
EstimateStep ==
    /\ pc = "Estimating"
    /\ \E create_raise \in BOOLEAN, r \in EstimateReplies :
          /\ create_raise => est.iter = 0
          /\ HasRows("ifDescr", r) => est.count = 0
          /\ EstimateRound(create_raise, r)
    /\ UNCHANGED <<emitted, probe_reply, connected, walk, interface_data, vlan, power, tw>>
    /\ UNCHANGED aux

\* --------------------------------------------------------- aggregation
\* _bulk_fetch_interface_data, lines 272-294: the target is built and the
\* eight tasks are created; if building the target raises, the method
\* returns {} and the fetch returns [] (lines 118-120)
BulkFetchStart ==
    /\ pc = "BulkFetch"
    /\ \E create_raise \in BOOLEAN :
          IF create_raise
          THEN /\ pc' = "Finally"
               /\ emitted' = Append(emitted, RunDeliver(<<>>))
               /\ UNCHANGED walk
          ELSE /\ pc' = "Aggregating"
               /\ walk' = [f \in CoreNames |-> NewWalk(f, interface_count)]
               /\ UNCHANGED emitted
    /\ last_req' = "none"
    /\ UNCHANGED <<probe_reply, connected, interface_count, est, interface_data, vlan, power, tw>>
    /\ UNCHANGED aux

\* the varBinds a device sends in reply to a walk of column oid_name
WalkVarBinds(oid_name) ==
    {VarBind(InName(oid_name, i), GoodRaw(oid_name)) : i \in Indices}
        \cup {VarBind(OutName(oid_name), GoodRaw(oid_name))}

\* the device of the fetch model sends pages of at most one varBind
WalkReplies(oid_name) ==
    ErrorReplies \cup {Reply("page", p) : p \in SeqsUpTo(WalkVarBinds(oid_name), 1)}

LiveColumns == {f \in CoreNames : walk[f].oid_data # <<>>}

\* one bulk_cmd round trip of the task walking column f; the device of the
\* fetch model sends one row of a column, for at most MaxLive columns
WalkStep(f) ==
    /\ pc = "Aggregating"
    /\ walk[f].status = "running"
    /\ \E r \in WalkReplies(f) :
          /\ HasRows(f, r) =>
                /\ walk[f].interfaces_found = 0
                /\ f \in LiveColumns \/ Cardinality(LiveColumns) < MaxLive
          /\ walk' = [walk EXCEPT ![f] = WalkPage(f, @, interface_count, r)]
    /\ last_req' = "walk"
    /\ UNCHANGED <<pc, emitted, probe_reply, connected, interface_count, est, interface_data,
                   vlan, power, tw>>
    /\ UNCHANGED aux

RECURSIVE MergeOid(_, _, _, _)
\* lines 304-307 for the result of one task, from its i-th item on
MergeOid(idata, oid_name, result, i) ==
    IF i > Len(result) THEN idata
    ELSE LET if_index == result[i].k
             row == DictGet(idata, if_index, <<>>)
         IN  MergeOid(DictSet(idata, if_index, DictSet(row, oid_name, result[i].v)),
                      oid_name, result, i + 1)

\* the merge loop leaving after the first result
MergeResults_FirstOnly(idata, results, i) ==
    MergeOid(idata, core_oids[1], results[core_oids[1]], 1)

RECURSIVE MergeResults_StopAtEmpty(_, _, _)
\* the merge loop left, not continued, at the first task without a result
MergeResults_StopAtEmpty(idata, results, i) ==
    IF i > Len(core_oids) \/ results[core_oids[i]] = <<>> THEN idata
    ELSE MergeResults_StopAtEmpty(
             MergeOid(idata, core_oids[i], results[core_oids[i]], 1), results, i + 1)

RECURSIVE MergeResults(_, _, _)
\* lines 297-307: the results of gather, in the order of core_oids
MergeResults(idata, results, i) ==
    IF i > Len(core_oids) THEN idata
    ELSE MergeResults(MergeOid(idata, core_oids[i], results[core_oids[i]], 1), results, i + 1)

NA == <<"N", "/", "A">>

InterfaceLabel == <<"I", "n", "t", "e", "r", "f", "a", "c", "e", "-">>

\* lines 139-151 with an empty VLAN column for an index the resolver did
\* not cover
interface_dict_VlanBlank(if_index, data, vlan_data, power_data) ==
    [Index       |-> if_index,
     Description |-> DictGet(data, "ifDescr", InterfaceLabel \o IntText(if_index)),
     OpStatus    |-> DictGet(data, "ifOperStatus", 2),
     AdminStatus |-> DictGet(data, "ifAdminStatus", 2),
     VLAN        |-> DictGet(vlan_data, if_index, <<>>),
     InOctets    |-> DictGet(data, "ifInOctets", 0),
     OutOctets   |-> DictGet(data, "ifOutOctets", 0),
     Speed       |-> DictGet(data, "ifSpeed", 0),
     Type        |-> DictGet(data, "ifType", 1),
     PhysAddress |-> DictGet(data, "ifPhysAddress", <<>>),
     Power       |-> DictGet(power_data, if_index, NA)]

\* lines 139-151 with the operational status defaulting to up
interface_dict_OpUp(if_index, data, vlan_data, power_data) ==
    [Index       |-> if_index,
     Description |-> DictGet(data, "ifDescr", InterfaceLabel \o IntText(if_index)),
     OpStatus    |-> DictGet(data, "ifOperStatus", 1),
     AdminStatus |-> DictGet(data, "ifAdminStatus", 2),
     VLAN        |-> DictGet(vlan_data, if_index, NA),
     InOctets    |-> DictGet(data, "ifInOctets", 0),
     OutOctets   |-> DictGet(data, "ifOutOctets", 0),
     Speed       |-> DictGet(data, "ifSpeed", 0),
     Type        |-> DictGet(data, "ifType", 1),
     PhysAddress |-> DictGet(data, "ifPhysAddress", <<>>),
     Power       |-> DictGet(power_data, if_index, NA)]

\* lines 139-151
interface_dict(if_index, data, vlan_data, power_data) ==
    [Index       |-> if_index,
     Description |-> DictGet(data, "ifDescr", InterfaceLabel \o IntText(if_index)),
     OpStatus    |-> DictGet(data, "ifOperStatus", 2),
     AdminStatus |-> DictGet(data, "ifAdminStatus", 2),
     VLAN        |-> DictGet(vlan_data, if_index, NA),
     InOctets    |-> DictGet(data, "ifInOctets", 0),
     OutOctets   |-> DictGet(data, "ifOutOctets", 0),
     Speed       |-> DictGet(data, "ifSpeed", 0),
     Type        |-> DictGet(data, "ifType", 1),
     PhysAddress |-> DictGet(data, "ifPhysAddress", <<>>),
     Power       |-> DictGet(power_data, if_index, NA)]

\* lines 137-152: one record per item of interface_data, in its order
BuildResult(idata, vlan_data, power_data) ==
    [i \in 1..Len(idata) |-> interface_dict(idata[i].k, idata[i].v, vlan_data, power_data)]

\* ------------------------------------------------------- VLAN resolver
VLAN_OID_MAPPING ==
    [dot1qVlanStaticName |-> <<1, 3, 6, 1, 2, 1, 17, 7, 1, 4, 3, 1, 1>>,
     dot1qPvid           |-> <<1, 3, 6, 1, 2, 1, 17, 7, 1, 4, 5, 1, 1>>,
     vmVlan              |-> <<1, 3, 6, 1, 4, 1, 9, 9, 68, 1, 2, 2, 1, 2>>,
     vtpVlanName         |-> <<1, 3, 6, 1, 4, 1, 9, 9, 46, 1, 3, 1, 1, 4, 1>>]

InSeq(x, s) == \E i \in 1..Len(s) : s[i] = x

RECURSIVE VlanIdScan(_, _, _, _, _)
\* the for loop of _fetch_pvid_data / _fetch_cisco_vlan_data over one page;
\* an exception other than ValueError and IndexError leaves the loop
VlanIdScan(base, varBinds, i, interface_indices, acc) ==
    IF i > Len(varBinds) THEN acc
    ELSE LET name_str == OidText(varBinds[i].name)
             port_index == ParseInt(LastSegment(name_str))
             vlan_id == IntOf(varBinds[i].val)
         IN  IF ~StartsWith(name_str, OidText(base))
                  \/ ~port_index.ok \/ vlan_id.exc = "ValueError"
             THEN VlanIdScan(base, varBinds, i + 1, interface_indices, acc)
             ELSE IF vlan_id.exc # "none" THEN acc
             ELSE IF InSeq(port_index.n, interface_indices)
             THEN VlanIdScan(base, varBinds, i + 1, interface_indices,
                             DictSet(acc, port_index.n, IntText(vlan_id.n)))
             ELSE VlanIdScan(base, varBinds, i + 1, interface_indices, acc)

\* _fetch_pvid_data and _fetch_cisco_vlan_data on reply r
VlanIdTable(base, r, interface_indices) ==
    IF r.kind = "page" THEN VlanIdScan(base, r.varBinds, 1, interface_indices, <<>>)
    ELSE <<>>

_fetch_pvid_data(r, interface_indices) ==
    VlanIdTable(VLAN_OID_MAPPING["dot1qPvid"], r, interface_indices)

_fetch_cisco_vlan_data(r, interface_indices) ==
    VlanIdTable(VLAN_OID_MAPPING["vmVlan"], r, interface_indices)

RECURSIVE Strip(_)
\* str.strip() for blanks
Strip(s) ==
    IF Len(s) = 0 THEN s
    ELSE IF s[1] = " " THEN Strip(Tail(s))
    ELSE IF s[Len(s)] = " " THEN Strip(SubSeq(s, 1, Len(s) - 1))
    ELSE s

\* s.split('.')[-2]
SecondLastSegment(s) ==
    LET n == Len(s) - Len(LastSegment(s)) - 1
    IN  IF n < 0 THEN <<>> ELSE LastSegment(SubSeq(s, 1, n))

RECURSIVE VlanNameScan(_, _, _, _, _)
\* the for loop of _fetch_vlan_names over one page; seg = 1 reads the id
\* from the last segment, seg = 2 from the one before it
VlanNameScan(base, varBinds, i, seg, acc) ==
    IF i > Len(varBinds) THEN [raised |-> FALSE, vlan_names |-> acc]
    ELSE LET name_str == OidText(varBinds[i].name)
             vlan_id == ParseInt(IF seg = 1 THEN LastSegment(name_str)
                                 ELSE SecondLastSegment(name_str))
             vlan_name == StrOf(varBinds[i].val)
         IN  IF ~StartsWith(name_str, OidText(base)) \/ ~vlan_id.ok
             THEN VlanNameScan(base, varBinds, i + 1, seg, acc)
             ELSE IF vlan_name.exc # "none" THEN [raised |-> TRUE, vlan_names |-> acc]
             ELSE IF Strip(vlan_name.s) # <<>>
             THEN VlanNameScan(base, varBinds, i + 1, seg,
                               DictSet(acc, vlan_id.n, Strip(vlan_name.s)))
             ELSE VlanNameScan(base, varBinds, i + 1, seg, acc)

\* one of the two reads of _fetch_vlan_names on reply r, vlan_names so far
VlanNameTable(base, r, seg, vlan_names) ==
    IF r.kind = "raise" THEN [raised |-> TRUE, vlan_names |-> vlan_names]
    ELSE IF r.kind = "page" THEN VlanNameScan(base, r.varBinds, 1, seg, vlan_names)
    ELSE [raised |-> FALSE, vlan_names |-> vlan_names]

RECURSIVE Enhance_Unnamed(_, _, _)
\* lines 409-415 without the test of line 414: an id without a name is
\* rewritten too
Enhance_Unnamed(vlan_data, vlan_names, i) ==
    IF Len(vlan_names) = 0 \/ i > Len(vlan_data) THEN vlan_data
    ELSE LET vlan_info == vlan_data[i].v
             vlan_id == ParseInt(vlan_info).n
         IN  IF IsDigitText(vlan_info)
             THEN Enhance_Unnamed(DictSet(vlan_data, vlan_data[i].k,
                                          IntText(vlan_id) \o <<" ", "(">>
                                              \o DictGet(vlan_names, vlan_id, <<>>)
                                              \o <<")">>),
                                  vlan_names, i + 1)
             ELSE Enhance_Unnamed(vlan_data, vlan_names, i + 1)

RECURSIVE Enhance(_, _, _)
\* lines 409-415
Enhance(vlan_data, vlan_names, i) ==
    IF Len(vlan_names) = 0 \/ i > Len(vlan_data) THEN vlan_data
    ELSE LET vlan_info == vlan_data[i].v
             vlan_id == ParseInt(vlan_info).n
         IN  IF IsDigitText(vlan_info) /\ DictHas(vlan_names, vlan_id)
             THEN Enhance(DictSet(vlan_data, vlan_data[i].k,
                                  IntText(vlan_id) \o <<" ", "(">>
                                      \o DictGet(vlan_names, vlan_id, <<>>) \o <<")">>),
                          vlan_names, i + 1)
             ELSE Enhance(vlan_data, vlan_names, i + 1)

\* the resolvers without the loops of lines 421-423 and 657-659
FillNA_None(data, interface_indices, i) == data

RECURSIVE FillNA(_, _, _)
\* lines 421-423 and 657-659
FillNA(data, interface_indices, i) ==
    IF i > Len(interface_indices) THEN data
    ELSE IF DictHas(data, interface_indices[i]) THEN FillNA(data, interface_indices, i + 1)
    ELSE FillNA(DictSet(data, interface_indices[i], NA), interface_indices, i + 1)

RECURSIVE MergeMissing_Overwrite(_, _, _)
\* lines 401-403 without the test of line 402, as dict.update would do
MergeMissing_Overwrite(vlan_data, cisco_vlan_data, i) ==
    IF i > Len(cisco_vlan_data) THEN vlan_data
    ELSE MergeMissing_Overwrite(
             DictSet(vlan_data, cisco_vlan_data[i].k, cisco_vlan_data[i].v),
             cisco_vlan_data, i + 1)

RECURSIVE MergeMissing(_, _, _)
\* lines 401-403
MergeMissing(vlan_data, cisco_vlan_data, i) ==
    IF i > Len(cisco_vlan_data) THEN vlan_data
    ELSE IF DictHas(vlan_data, cisco_vlan_data[i].k)
    THEN MergeMissing(vlan_data, cisco_vlan_data, i + 1)
    ELSE MergeMissing(DictSet(vlan_data, cisco_vlan_data[i].k, cisco_vlan_data[i].v),
                      cisco_vlan_data, i + 1)

\* line 397 with only its first test
NeedsCisco_EmptyOnly(vlan_data, interface_indices) ==
    Len(vlan_data) = 0

\* line 397
NeedsCisco(vlan_data, interface_indices) ==
    Len(vlan_data) = 0 \/ 2 * Len(vlan_data) < Len(interface_indices)

\* ------------------------------------------------------ power resolver
\* POWER_OID_MAPPING, in the order of its items
POWER_OID_MAPPING ==
    <<[name |-> "cethPsePortPower", oid |-> <<1, 3, 6, 1, 4, 1, 9, 9, 402, 1, 2, 1, 7>>],
      [name |-> "pethPsePortPowerConsumption", oid |-> <<1, 3, 6, 1, 2, 1, 105, 1, 1, 1, 4>>]>>

\* the readings below 2000 that end in 50 and that the format of line 641
\* rounds up: the double nearest to power_value / 1000 is not below the
\* midpoint of two tenths (0.05, 0.45, 0.55 round up, 0.15 and 0.35 down,
\* 0.25 goes to the even tenth)
TiesUp == {50, 450, 550, 650, 750, 1050, 1350, 1550, 1750, 1850}

\* the watts without the rounding of the format: the tenths are cut off
FormatWatts_Truncate(power_value) ==
    IF power_value > 0
    THEN LET tenths == power_value \div 100
         IN  NatText(tenths \div 10) \o <<".">> \o NatText(tenths % 10) \o <<"W">>
    ELSE <<"0", "W">>

\* f"{power_value / 1000:.1f}W" for power_value > 0, "0W" otherwise
\* (lines 640-643); a reading that ends in 50 is rounded as TiesUp says,
\* any other to the nearest tenth
FormatWatts(power_value) ==
    IF power_value > 0
    THEN LET tenths == IF power_value % 100 = 50 /\ power_value \notin TiesUp
                       THEN power_value \div 100
                       ELSE (power_value + 50) \div 100
         IN  NatText(tenths \div 10) \o <<".">> \o NatText(tenths % 10) \o <<"W">>
    ELSE <<"0", "W">>

RECURSIVE PowerScan(_, _, _, _, _)
\* the for loop of _get_power_data_bulk over one page
PowerScan(power_oid, varBinds, i, interface_indices, acc) ==
    IF i > Len(varBinds) THEN [raised |-> FALSE, power_data |-> acc]
    ELSE LET name_str == OidText(varBinds[i].name)
             if_index == ParseInt(LastSegment(name_str))
             power_value == IntOf(varBinds[i].val)
         IN  IF ~StartsWith(name_str, OidText(power_oid)) \/ ~if_index.ok
                  \/ ~InSeq(if_index.n, interface_indices)
                  \/ power_value.exc = "ValueError"
             THEN PowerScan(power_oid, varBinds, i + 1, interface_indices, acc)
             ELSE IF power_value.exc # "none" THEN [raised |-> TRUE, power_data |-> acc]
             ELSE PowerScan(power_oid, varBinds, i + 1, interface_indices,
                            DictSet(acc, if_index.n, FormatWatts(power_value.n)))

\* the body of the loop of lines 611-651 for one prefix on reply r:
\* [stop |-> TRUE] when the loop is left by the break of line 648
PowerTry(power_oid, r, interface_indices, power_data) ==
    IF r.kind = "page" /\ Len(r.varBinds) > 0
    THEN LET x == PowerScan(power_oid, r.varBinds, 1, interface_indices, power_data)
         IN  [stop |-> ~x.raised /\ Len(x.power_data) > 0, power_data |-> x.power_data]
    ELSE [stop |-> FALSE, power_data |-> power_data]

\* ------------------------------------------------------- fetch, continued
AllDone == \A f \in CoreNames : walk[f].status = "done"

\* Merge without the test of lines 118-120
Merge_NoEmptyTest ==
    /\ pc = "Aggregating"
    /\ AllDone
    /\ interface_data' = MergeResults(<<>>, [f \in CoreNames |-> walk[f].oid_data], 1)
    /\ pc' = "Resolving"
    /\ vlan' = [NoVlan EXCEPT !.pc = "pvid"]
    /\ power' = [NoPower EXCEPT !.pc = "oid1"]
    /\ last_req' = "none"
    /\ UNCHANGED <<emitted, probe_reply, connected, interface_count, est, walk, tw>>
    /\ UNCHANGED aux

\* Merge as soon as one task has returned, not all of them
Merge_FirstCompleted ==
    /\ pc = "Aggregating"
    /\ \E f \in CoreNames : walk[f].status = "done"
    /\ LET idata == MergeResults(<<>>, [f \in CoreNames |-> walk[f].oid_data], 1)
       IN  /\ interface_data' = idata
           /\ IF Len(idata) = 0
              THEN /\ pc' = "Finally"
                   /\ emitted' = Append(emitted, RunDeliver(<<>>))
                   /\ UNCHANGED <<vlan, power>>
              ELSE /\ pc' = "Resolving"
                   /\ vlan' = [NoVlan EXCEPT !.pc = "pvid"]
                   /\ power' = [NoPower EXCEPT !.pc = "oid1"]
                   /\ UNCHANGED emitted
    /\ last_req' = "none"
    /\ UNCHANGED <<probe_reply, connected, interface_count, est, walk, tw>>
    /\ UNCHANGED aux

\* lines 296-314 and 118-124: the results are merged; an empty map ends the
\* fetch with [], otherwise the two resolver tasks are created
RECURSIVE MergeArrived(_, _)
\* the merge loop over the results in the order in which the tasks
\* returned them
MergeArrived(idata, i) ==
    IF i > Len(hist.order) THEN idata
    ELSE MergeArrived(MergeOid(idata, hist.order[i], walk[hist.order[i]].oid_data, 1),
                      i + 1)

\* Merge over asyncio.as_completed instead of asyncio.gather
Merge_AsCompleted ==
    /\ pc = "Aggregating"
    /\ AllDone
    /\ LET idata == IF hist.order = <<>>
                    THEN MergeResults(<<>>, [f \in CoreNames |-> walk[f].oid_data], 1)
                    ELSE MergeArrived(<<>>, 1)
       IN  /\ interface_data' = idata
           /\ IF Len(idata) = 0
              THEN /\ pc' = "Finally"
                   /\ emitted' = Append(emitted, RunDeliver(<<>>))
                   /\ UNCHANGED <<vlan, power>>
              ELSE /\ pc' = "Resolving"
                   /\ vlan' = [NoVlan EXCEPT !.pc = "pvid"]
                   /\ power' = [NoPower EXCEPT !.pc = "oid1"]
                   /\ UNCHANGED emitted
    /\ last_req' = "none"
    /\ UNCHANGED <<probe_reply, connected, interface_count, est, walk, tw>>
    /\ UNCHANGED aux

Merge ==
    /\ pc = "Aggregating"
    /\ AllDone
    /\ LET idata == MergeResults(<<>>, [f \in CoreNames |-> walk[f].oid_data], 1)
       IN  /\ interface_data' = idata
           /\ IF Len(idata) = 0
              THEN /\ pc' = "Finally"
                   /\ emitted' = Append(emitted, RunDeliver(<<>>))
                   /\ UNCHANGED <<vlan, power>>
              ELSE /\ pc' = "Resolving"
                   /\ vlan' = [NoVlan EXCEPT !.pc = "pvid"]
                   /\ power' = [NoPower EXCEPT !.pc = "oid1"]
                   /\ UNCHANGED emitted
    /\ last_req' = "none"
    /\ UNCHANGED <<probe_reply, connected, interface_count, est, walk, tw>>
    /\ UNCHANGED aux

interface_indices == DictKeys(interface_data)

\* VLAN ids and names the modelled device holds
VlanIds == {10}

VlanVarBinds(base, vals) ==
    {VarBind(base \o <<i>>, v) : i \in Indices, v \in vals}
        \cup {VarBind(NextColumn(base), v) : v \in vals}

TableReplies(varBinds) ==
    ErrorReplies \cup {Reply("page", p) : p \in SeqsUpTo(varBinds, 1)}

\* the end of _get_vlan_data_bulk from line 407 on, names already fetched
VlanFinish(vlan_data, vlan_names) ==
    [pc |-> "done",
     vlan_data |-> FillNA(Enhance(vlan_data, vlan_names, 1), interface_indices, 1),
     vlan_names |-> vlan_names]

\* lines 384-397: the target is built and the PVID table is read, with
\* reply r
VlanPvidStep(create_raise, r) ==
    IF create_raise
    THEN /\ vlan' = VlanFinish(<<>>, <<>>)
         /\ last_req' = "none"
    ELSE /\ last_req' = "vlan"
         /\ LET vlan_data == _fetch_pvid_data(r, interface_indices)
            IN  vlan' = [vlan EXCEPT
                           !.vlan_data = vlan_data,
                           !.pc = IF NeedsCisco(vlan_data, interface_indices)
                                  THEN "cisco" ELSE "names"]

VlanPvid ==
    /\ pc = "Resolving"
    /\ vlan.pc = "pvid"
    /\ \E create_raise \in BOOLEAN,
          r \in TableReplies(VlanVarBinds(VLAN_OID_MAPPING["dot1qPvid"],
                                          {RawInt(v) : v \in VlanIds})) :
          VlanPvidStep(create_raise, r)
    /\ UNCHANGED <<pc, emitted, probe_reply, connected, interface_count, est, walk,
                   interface_data, power, tw>>
    /\ UNCHANGED aux

\* lines 398-407: the vendor membership table is read, with reply r, and
\* merged
VlanCiscoStep(r) ==
    /\ LET vlan_data == MergeMissing(vlan.vlan_data,
                                     _fetch_cisco_vlan_data(r, interface_indices), 1)
       IN  vlan' = IF Len(vlan_data) > 0
                   THEN [vlan EXCEPT !.vlan_data = vlan_data, !.pc = "names"]
                   ELSE VlanFinish(vlan_data, <<>>)
    /\ last_req' = "vlan"

VlanCisco ==
    /\ pc = "Resolving"
    /\ vlan.pc = "cisco"
    /\ \E r \in TableReplies(VlanVarBinds(VLAN_OID_MAPPING["vmVlan"],
                                          {RawInt(v) : v \in VlanIds})) :
          VlanCiscoStep(r)
    /\ UNCHANGED <<pc, emitted, probe_reply, connected, interface_count, est, walk,
                   interface_data, power, tw>>
    /\ UNCHANGED aux

NameVarBinds(base) ==
    {VarBind(base \o <<v>>, RawOctets(<<101>>)) : v \in VlanIds}
        \cup {VarBind(NextColumn(base), RawOctets(<<101>>))}

\* how the read of the standard name table ends on reply r: "ok" when the
\* page was scanned, the kind of the error reply, or "raise" when the call
\* or the scan of a row raised (lines 535-558)
NamesEnd(r) ==
    IF r.kind = "raise" THEN "raise"
    ELSE IF r.kind # "page" THEN r.kind
    ELSE IF VlanNameScan(VLAN_OID_MAPPING["dot1qVlanStaticName"], r.varBinds, 1, 1,
                         <<>>).raised
    THEN "raise" ELSE "ok"

\* _fetch_vlan_names, lines 522-558: the standard name table is read, with
\* reply r
VlanNamesStep(r) ==
    /\ LET x == VlanNameTable(VLAN_OID_MAPPING["dot1qVlanStaticName"], r, 1, <<>>)
       IN  vlan' = IF x.raised
                   THEN [vlan EXCEPT !.vlan_names = x.vlan_names, !.pc = "vtp"]
                   ELSE VlanFinish(vlan.vlan_data, x.vlan_names)
    /\ last_req' = "vlan"

VlanNames ==
    /\ pc = "Resolving"
    /\ vlan.pc = "names"
    /\ \E r \in TableReplies(NameVarBinds(VLAN_OID_MAPPING["dot1qVlanStaticName"])) :
          VlanNamesStep(r)
    /\ UNCHANGED <<pc, emitted, probe_reply, connected, interface_count, est, walk,
                   interface_data, power, tw>>
    /\ UNCHANGED aux

\* _fetch_vlan_names, lines 559-597: the vendor name table is read, with
\* reply r
VlanVtpStep(r) ==
    /\ LET x == VlanNameTable(VLAN_OID_MAPPING["vtpVlanName"], r, 2, vlan.vlan_names)
       IN  vlan' = VlanFinish(vlan.vlan_data, x.vlan_names)
    /\ last_req' = "vlan"

VlanVtp ==
    /\ pc = "Resolving"
    /\ vlan.pc = "vtp"
    /\ \E r \in TableReplies(NameVarBinds(VLAN_OID_MAPPING["vtpVlanName"])) :
          VlanVtpStep(r)
    /\ UNCHANGED <<pc, emitted, probe_reply, connected, interface_count, est, walk,
                   interface_data, power, tw>>
    /\ UNCHANGED aux

\* raw power readings the modelled device holds
PowerReadings == {RawInt(15400)}

\* one pass of the loop of _get_power_data_bulk, with reply r: the target
\* is built before the first pass
PowerRound(create_raise, r) ==
    LET n == IF power.pc = "oid1" THEN 1 ELSE 2
        power_oid == POWER_OID_MAPPING[n].oid
    IN  IF create_raise
        THEN /\ power' = [pc |-> "done",
                          power_data |-> FillNA(<<>>, interface_indices, 1)]
             /\ last_req' = "none"
        ELSE /\ last_req' = "power"
             /\ LET x == PowerTry(power_oid, r, interface_indices, power.power_data)
                IN  power' =
                      IF x.stop \/ n = Len(POWER_OID_MAPPING)
                      THEN [pc |-> "done",
                            power_data |-> FillNA(x.power_data, interface_indices, 1)]
                      ELSE [pc |-> "oid2", power_data |-> x.power_data]

PowerStep ==
    /\ pc = "Resolving"
    /\ power.pc \in {"oid1", "oid2"}
    /\ \E create_raise \in BOOLEAN,
          r \in TableReplies(VlanVarBinds(
                   POWER_OID_MAPPING[IF power.pc = "oid1" THEN 1 ELSE 2].oid,
                   PowerReadings)) :
          /\ create_raise => power.pc = "oid1"
          /\ PowerRound(create_raise, r)
    /\ UNCHANGED <<pc, emitted, probe_reply, connected, interface_count, est, walk,
                   interface_data, vlan, tw>>
    /\ UNCHANGED aux

\* lines 126-155 and 87-88: both tasks are done, the records are built,
\* returned and emitted
Assemble ==
    /\ pc = "Resolving"
    /\ vlan.pc = "done"
    /\ power.pc = "done"
    /\ emitted' = Append(emitted,
                         RunDeliver(BuildResult(interface_data, vlan.vlan_data,
                                                power.power_data)))
    /\ pc' = "Finally"
    /\ last_req' = "none"
    /\ UNCHANGED <<probe_reply, connected, interface_count, est, walk, interface_data,
                   vlan, power, tw>>
    /\ UNCHANGED aux

\* line 96
Finally ==
    /\ pc = "Finally"
    /\ emitted' = Append(emitted, Signal("finished", <<>>, ""))
    /\ pc' = "Done"
    /\ last_req' = "none"
    /\ UNCHANGED <<probe_reply, connected, interface_count, est, walk, interface_data,
                   vlan, power, tw>>
    /\ UNCHANGED aux

Next ==
    \/ RunStart
    \/ Probe
    \/ Count
    \/ EstimateStep
    \/ BulkFetchStart
    \/ \E f \in CoreNames : WalkStep(f)
    \/ Merge
    \/ VlanPvid
    \/ VlanCisco
    \/ VlanNames
    \/ VlanVtp
    \/ PowerStep
    \/ Assemble
    \/ Finally

Spec == Init /\ [][Next]_vars

\* ------------------------------------------------- table walk on its own
\* _bulk_fetch_single_oid(target, oid_name, max_interfaces) against a device
\* that may answer every request with any page or error
WalkColumns == {"ifDescr", "ifOperStatus"}

WalkVarBindsW(oid_name) ==
    {VarBind(InName(oid_name, i), GoodRaw(oid_name)) : i \in 1..MaxIndexW}
        \cup {VarBind(InName(oid_name, 1), RawFaulty),
              VarBind(OutName(oid_name), GoodRaw(oid_name)),
              VarBind(SiblingName(oid_name, 1), GoodRaw(oid_name))}

WalkRepliesW(oid_name) ==
    ErrorReplies
        \cup {Reply("page", p) : p \in SeqsUpTo(WalkVarBindsW(oid_name), MaxPageLenW)}

\* the page holds an identifier that does not start with the walked prefix
HasOut(oid_name, r) ==
    \E i \in 1..Len(r.varBinds) :
        ~StartsWith(OidText(r.varBinds[i].name), OidText(OID_MAPPING[oid_name]))

InitWalk ==
    /\ pc = "Walk"
    /\ emitted = <<>>
    /\ last_req = "none"
    /\ probe_reply = "none"
    /\ connected = "none"
    /\ interface_count = 0
    /\ est = [count |-> 0, iter |-> 0]
    /\ walk = [f \in CoreNames |-> NoWalk]
    /\ interface_data = <<>>
    /\ vlan = NoVlan
    /\ power = NoPower
    /\ \E oid_name \in WalkColumns, max_interfaces \in 0..MaxRowsW :
          tw = [NoTw EXCEPT !.oid_name = oid_name, !.max_interfaces = max_interfaces,
                            !.w = NewWalk(oid_name, max_interfaces)]
    /\ NoAux

\* name lies under the table base: base is a prefix of its segments
IsUnder(name, base) == Len(base) <= Len(name) /\ SubSeq(name, 1, Len(base)) = base

\* the k-th varBind of the page r is stored by the walk (lines 363-364)
StoredAt(r, k) ==
    LET found(n) == ScanBatch(tw.oid_name, SubSeq(r.varBinds, 1, n), 1,
                              [status |-> tw.w.status, oid_data |-> tw.w.oid_data,
                               interfaces_found |-> tw.w.interfaces_found,
                               current_oid |-> tw.w.current_oid,
                               found_in_batch |-> FALSE,
                               raised |-> FALSE]).interfaces_found
    IN  found(k) > found(k - 1)

\* one bulk_cmd round trip of the walk; tw records how the request ended
\* (last), whether a row was stored after an identifier that does not
\* start with the prefix had been returned (late_row) and whether a row
\* was stored whose identifier does not lie under the prefix (foreign_row)
TableWalkStep ==
    /\ pc = "Walk"
    /\ tw.w.status = "running"
    /\ \E r \in WalkRepliesW(tw.oid_name) :
          LET stored == IF r.kind = "page"
                        THEN {k \in 1..Len(r.varBinds) : StoredAt(r, k)}
                        ELSE {}
          IN  tw' = [tw EXCEPT
                       !.w = WalkPage(tw.oid_name, @, tw.max_interfaces, r),
                       !.requests = @ + 1,
                       !.seen_out = @ \/ HasOut(tw.oid_name, r),
                       !.last = r.kind,
                       !.late_row = @ \/ (tw.seen_out /\ stored # {}),
                       !.foreign_row = @ \/ \E k \in stored :
                           ~IsUnder(r.varBinds[k].name, OID_MAPPING[tw.oid_name])]
    /\ last_req' = "walk"
    /\ UNCHANGED <<pc, emitted, probe_reply, connected, interface_count, est, walk,
                   interface_data, vlan, power>>
    /\ UNCHANGED aux

NextWalk == TableWalkStep

SpecWalk == InitWalk /\ [][NextWalk]_vars

\* --------------------------------------------- aggregation on its own
\* lines 296-307 and 126-155 for any results of the eight tasks: the
\* results are drawn, merged, and the records are built from them and from
\* what gather returns for the two resolvers
IndexSeqsA ==
    {<<i>> : i \in 1..MaxIndexA}
        \cup {p \in {<<i, j>> : i \in 1..MaxIndexA, j \in 1..MaxIndexA} : p[1] < p[2]}

\* the locals of a task that returned rows for the indices of ix, in order
WalkResult(oid_name, ix) ==
    [status |-> "done",
     oid_data |-> [n \in 1..Len(ix) |->
                      [k |-> ix[n], v |-> _convert_snmp_value(oid_name, GoodRaw(oid_name)).v]],
     interfaces_found |-> Len(ix),
     current_oid |-> IF Len(ix) = 0 THEN OID_MAPPING[oid_name]
                     ELSE InName(oid_name, ix[Len(ix)])]

InitAgg ==
    /\ pc = "Aggregating"
    /\ emitted = <<>>
    /\ last_req = "walk"
    /\ probe_reply = "page"
    /\ connected = "true"
    /\ interface_count = 20
    /\ est = [count |-> 0, iter |-> 0]
    /\ interface_data = <<>>
    /\ vlan = NoVlan
    /\ power = NoPower
    /\ tw = NoTw
    /\ \E live \in SUBSET CoreNames :
          /\ Cardinality(live) <= MaxLiveA
          /\ \E ix \in [live -> IndexSeqsA] :
                walk = [f \in CoreNames |->
                          WalkResult(f, IF f \in live THEN ix[f] ELSE <<>>)]
    /\ NoAux

\* what gather returns for a resolver over interface_indices: an exception
\* (replaced by {} in lines 131-134), or a map that covers every index, with
\* a value for none of them or for the first of them
GatherOutcomes(value) ==
    {<<>>,
     FillNA(<<>>, interface_indices, 1),
     FillNA(<<[k |-> interface_indices[1], v |-> value]>>, interface_indices, 1)}

\* lines 126-134: both resolver tasks have returned
Gather ==
    /\ pc = "Resolving"
    /\ vlan.pc = "pvid"
    /\ power.pc = "oid1"
    /\ \E vlan_data \in GatherOutcomes(<<"1", "0">>),
          power_data \in GatherOutcomes(<<"1", "5", ".", "4", "W">>) :
          /\ vlan' = [vlan EXCEPT !.pc = "done", !.vlan_data = vlan_data]
          /\ power' = [power EXCEPT !.pc = "done", !.power_data = power_data]
    /\ last_req' = "none"
    /\ UNCHANGED <<pc, emitted, probe_reply, connected, interface_count, est, walk,
                   interface_data, tw>>
    /\ UNCHANGED aux

NextAgg ==
    \/ Merge
    \/ Gather
    \/ Assemble

SpecAgg == InitAgg /\ [][NextAgg]_vars

\* ------------------------------------- _convert_snmp_value on its own
\* largest integer a raw value carries in the calls modelled
MaxIntC == 2
\* longest octet string in the calls modelled
MaxOctetsC == 2

\* the six-byte addresses of the calls: every byte is 10 or 255, and the
\* address 00:1a:2b:3c:4d:5e
AddressesC ==
    {RawOctets(b) : b \in [1..6 -> {10, 255}]} \cup {RawOctets(<<0, 26, 43, 60, 77, 94>>)}

\* the raw values of the calls: integers, octet strings of the bytes "1"
\* and "x", six-byte addresses, strings of five and of seven bytes, a Null
\* and a Faulty
ConvValues ==
    {RawInt(n) : n \in -1..MaxIntC}
        \cup {RawOctets(b) : b \in SeqsUpTo({49, 120}, MaxOctetsC)}
        \cup AddressesC
        \cup {RawOctets(<<49, 50, 51, 52, 53>>), RawOctets(<<49, 50, 51, 52, 53, 54, 55>>),
              RawNull, RawFaulty}

InitConv ==
    /\ pc = "Convert"
    /\ emitted = <<>>
    /\ last_req = "none"
    /\ probe_reply = "none"
    /\ connected = "none"
    /\ interface_count = 0
    /\ est = [count |-> 0, iter |-> 0]
    /\ walk = [f \in CoreNames |-> NoWalk]
    /\ interface_data = <<>>
    /\ vlan = NoVlan
    /\ power = NoPower
    /\ tw = NoTw
    /\ device = NoDevice
    /\ hist = NoHist
    /\ \E oid_name \in CoreNames, value \in ConvValues :
          conv = [NoConv EXCEPT !.oid_name = oid_name, !.value = value]

\* the call returns, or an exception leaves it
Convert ==
    /\ pc = "Convert"
    /\ ~conv.called
    /\ LET c == _convert_snmp_value(conv.oid_name, conv.value)
       IN  conv' = [conv EXCEPT !.called = TRUE, !.exc = c.exc, !.v = c.v]
    /\ UNCHANGED <<pc, emitted, last_req, probe_reply, connected, interface_count, est,
                   walk, interface_data, vlan, power, tw, device, hist>>

NextConv == Convert

SpecConv == InitConv /\ [][NextConv]_vars

\* ---------------------------------------- the count estimation on its own
\* largest value of the interface-count scalar of the devices modelled
MaxCountE == 60

\* the values the scalar read returns: integers below, at and above the
\* cap of line 220, a decimal octet string, a Null and a Faulty
CountValuesE ==
    {RawInt(n) : n \in {-6, 0, 1} \cup ((MaxCountE - 2)..MaxCountE)}
        \cup {RawOctets(<<49>>), RawNull, RawFaulty}

\* how a scalar read ended: "value" when an integer was read
CountKind(create_raise, r) ==
    IF create_raise \/ r.kind = "raise" THEN "raise"
    ELSE IF r.kind # "page" THEN r.kind
    ELSE IF Len(r.varBinds) > 0 /\ IntOf(r.varBinds[1].val).exc = "none" THEN "value"
    ELSE "novalue"

\* how a request of the fallback walk ended
EstimateKind(create_raise, r) ==
    IF create_raise \/ r.kind = "raise" THEN "raise"
    ELSE IF r.kind # "page" THEN r.kind
    ELSE IF Len(r.varBinds) = 0 THEN "empty"
    ELSE IF HasRows("ifDescr", r) THEN "row"
    ELSE "out"

InitEst ==
    /\ pc = "Counting"
    /\ emitted = <<>>
    /\ last_req = "probe"
    /\ probe_reply = "page"
    /\ connected = "true"
    /\ interface_count = 0
    /\ est = [count |-> 0, iter |-> 0]
    /\ walk = [f \in CoreNames |-> NoWalk]
    /\ interface_data = <<>>
    /\ vlan = NoVlan
    /\ power = NoPower
    /\ tw = NoTw
    /\ device = NoDevice
    /\ conv = NoConv
    /\ hist = NoHist

\* _get_interface_count for any value of the scalar
EstCount ==
    /\ pc = "Counting"
    /\ \E create_raise \in BOOLEAN, r \in ScalarReplies(CountValuesE) :
          /\ CountStep(create_raise, r)
          /\ hist' = [hist EXCEPT
                        !.count = CountKind(create_raise, r),
                        !.n = IF CountKind(create_raise, r) = "value"
                              THEN IntOf(r.varBinds[1].val).n ELSE 0]
    /\ UNCHANGED <<emitted, probe_reply, connected, walk, interface_data, vlan, power, tw,
                   device, conv>>

\* one request of _estimate_interface_count for a description table of
\* any length
EstStep ==
    /\ pc = "Estimating"
    /\ \E create_raise \in BOOLEAN, r \in EstimateReplies :
          /\ create_raise => est.iter = 0
          /\ EstimateRound(create_raise, r)
          /\ hist' = [hist EXCEPT
                        !.first = IF est.iter = 0 THEN EstimateKind(create_raise, r) ELSE @,
                        !.est_requests = IF create_raise THEN @ ELSE @ + 1,
                        !.est_last = EstimateKind(create_raise, r),
                        !.observed = IF create_raise THEN est.count
                                     ELSE EstimateIter(est, r).e.count]
    /\ UNCHANGED <<emitted, probe_reply, connected, walk, interface_data, vlan, power, tw,
                   device, conv>>

NextEst ==
    \/ EstCount
    \/ EstStep
    \/ BulkFetchStart

SpecEst == InitEst /\ [][NextEst]_vars

\* --------------------------------------------- the resolvers on their own
\* largest interface index of the index lists and tables modelled
MaxIndexR == 3
\* longest page a table read returns in the resolver model
PageLenR == 2

RECURSIVE SortedSeq(_)
\* the members of a set of integers in ascending order
SortedSeq(S) ==
    IF S = {} THEN <<>>
    ELSE LET m == CHOOSE x \in S : \A y \in S : x <= y
         IN  <<m>> \o SortedSeq(S \ {m})

\* s in reverse order
Reverse(s) == [n \in 1..Len(s) |-> s[Len(s) + 1 - n]]

\* the index lists a resolver is called with: ascending and descending
IndexListsR ==
    {SortedSeq(S) : S \in (SUBSET (1..MaxIndexR)) \ {{}}}
        \cup {Reverse(SortedSeq(S)) : S \in (SUBSET (1..MaxIndexR)) \ {{}}}

\* the aggregated map whose keys are the indices of ix
IndexDict(ix) == [n \in 1..Len(ix) |-> [k |-> ix[n], v |-> <<>>]]

\* VLAN ids the tables of the resolver model hold
VlanIdsR == {10, 20}

\* rows of a PVID, membership or power table, with the values vals, and an
\* instance of the object after the table
RowVarBindsR(base, vals) ==
    {VarBind(base \o <<i>>, v) : i \in 1..MaxIndexR, v \in vals}
        \cup {VarBind(NextColumn(base), RawInt(1))}

RECURSIVE OidLess(_, _)
\* identifier a comes before identifier b
OidLess(a, b) ==
    IF Len(b) = 0 THEN FALSE
    ELSE IF Len(a) = 0 THEN TRUE
    ELSE IF a[1] # b[1] THEN a[1] < b[1]
    ELSE OidLess(Tail(a), Tail(b))

RECURSIVE AscendingUpTo(_, _)
\* the sequences over the varBinds S, of length at most n, whose names
\* increase, as the pages of a bulk reply do
AscendingUpTo(S, n) ==
    IF n = 0 THEN {<<>>}
    ELSE LET shorter == AscendingUpTo(S, n - 1)
         IN  shorter \cup
             {Append(q[1], q[2]) :
                 q \in {x \in shorter \X S :
                           Len(x[1]) = 0 \/ OidLess(x[1][Len(x[1])].name, x[2].name)}}

RepliesR(varBinds) ==
    ErrorReplies \cup {Reply("page", p) : p \in AscendingUpTo(varBinds, PageLenR)}

\* values of a VLAN id column: two ids and an object identifier
IdValuesR == {RawInt(v) : v \in VlanIdsR} \cup {RawOid(<<0, 0>>)}

\* rows of a name table: a name or a Faulty for each id
NameVarBindsR(base) ==
    {VarBind(base \o <<v>>, x) : v \in VlanIdsR, x \in {RawOctets(<<101>>), RawFaulty}}
        \cup {VarBind(NextColumn(base), RawOctets(<<101>>))}

\* values of a power column: a reading, zero and an object identifier
PowerValuesR == {RawInt(15400), RawInt(0), RawOid(<<0, 0>>)}

\* the replies to each request of the resolvers
PvidRepliesR ==
    RepliesR(RowVarBindsR(VLAN_OID_MAPPING["dot1qPvid"], IdValuesR))

CiscoRepliesR ==
    RepliesR(RowVarBindsR(VLAN_OID_MAPPING["vmVlan"], IdValuesR))

NamesRepliesR ==
    RepliesR(NameVarBindsR(VLAN_OID_MAPPING["dot1qVlanStaticName"]))

\* the rows of vtpVlanName are indexed by management domain and VLAN
VtpRepliesR ==
    RepliesR({VarBind(VLAN_OID_MAPPING["vtpVlanName"] \o <<1, v>>, x) :
                  v \in VlanIdsR, x \in {RawOctets(<<101>>), RawFaulty}}
             \cup {VarBind(NextColumn(VLAN_OID_MAPPING["vtpVlanName"]),
                           RawOctets(<<101>>))})

PowerRepliesR ==
    [n \in 1..2 |-> RepliesR(RowVarBindsR(POWER_OID_MAPPING[n].oid, PowerValuesR))]

\* one resolver is called with an index list
InitRes ==
    /\ pc = "Resolving"
    /\ emitted = <<>>
    /\ last_req = "none"
    /\ probe_reply = "page"
    /\ connected = "true"
    /\ interface_count = 20
    /\ est = [count |-> 0, iter |-> 0]
    /\ walk = [f \in CoreNames |-> [NoWalk EXCEPT !.status = "done"]]
    /\ \E ix \in IndexListsR : interface_data = IndexDict(ix)
    /\ \/ vlan = [NoVlan EXCEPT !.pc = "pvid"] /\ power = NoPower
       \/ vlan = NoVlan /\ power = [NoPower EXCEPT !.pc = "oid1"]
    /\ tw = NoTw
    /\ device = NoDevice
    /\ conv = NoConv
    /\ hist = NoHist

ResPvid ==
    /\ pc = "Resolving"
    /\ vlan.pc = "pvid"
    /\ \E create_raise \in BOOLEAN,
          r \in PvidRepliesR :
          /\ VlanPvidStep(create_raise, r)
          /\ hist' = [hist EXCEPT !.pvid = IF create_raise THEN <<>>
                                           ELSE _fetch_pvid_data(r, interface_indices),
                                  !.asked = IF create_raise THEN @
                                            ELSE Append(@, "dot1qPvid")]
    /\ UNCHANGED <<pc, emitted, probe_reply, connected, interface_count, est, walk,
                   interface_data, power, tw, device, conv>>

ResCisco ==
    /\ pc = "Resolving"
    /\ vlan.pc = "cisco"
    /\ \E r \in CiscoRepliesR :
          /\ VlanCiscoStep(r)
          /\ hist' = [hist EXCEPT !.cisco = _fetch_cisco_vlan_data(r, interface_indices),
                                  !.asked = Append(@, "vmVlan")]
    /\ UNCHANGED <<pc, emitted, probe_reply, connected, interface_count, est, walk,
                   interface_data, power, tw, device, conv>>

ResNames ==
    /\ pc = "Resolving"
    /\ vlan.pc = "names"
    /\ \E r \in NamesRepliesR :
          /\ VlanNamesStep(r)
          /\ hist' = [hist EXCEPT !.asked = Append(@, "dot1qVlanStaticName"),
                                  !.names_end = NamesEnd(r)]
    /\ UNCHANGED <<pc, emitted, probe_reply, connected, interface_count, est, walk,
                   interface_data, power, tw, device, conv>>

ResVtp ==
    /\ pc = "Resolving"
    /\ vlan.pc = "vtp"
    /\ \E r \in VtpRepliesR :
          /\ VlanVtpStep(r)
          /\ hist' = [hist EXCEPT !.asked = Append(@, "vtpVlanName")]
    /\ UNCHANGED <<pc, emitted, probe_reply, connected, interface_count, est, walk,
                   interface_data, power, tw, device, conv>>

ResPower ==
    /\ pc = "Resolving"
    /\ power.pc \in {"oid1", "oid2"}
    /\ \E create_raise \in BOOLEAN,
          r \in PowerRepliesR[IF power.pc = "oid1" THEN 1 ELSE 2] :
          /\ create_raise => power.pc = "oid1"
          /\ PowerRound(create_raise, r)
          /\ hist' = IF create_raise THEN hist
                     ELSE IF power.pc = "oid1"
                     THEN [hist EXCEPT !.power1 =
                              PowerTry(POWER_OID_MAPPING[1].oid, r, interface_indices,
                                       <<>>).power_data]
                     ELSE [hist EXCEPT !.power2 =
                              PowerTry(POWER_OID_MAPPING[2].oid, r, interface_indices,
                                       <<>>).power_data]
    /\ UNCHANGED <<pc, emitted, probe_reply, connected, interface_count, est, walk,
                   interface_data, vlan, tw, device, conv>>

NextRes ==
    \/ ResPvid
    \/ ResCisco
    \/ ResNames
    \/ ResVtp
    \/ ResPower

SpecRes == InitRes /\ [][NextRes]_vars

\* ------------------------------------------- the PVID table of one device
\* max-repetitions of the request of _fetch_pvid_data
PvidMaxRepetitions == 20

\* the largest PVID table of a modelled device
MaxPorts == 21

\* the VLAN every port of a modelled device is in
PortVlan == 10

\* a device whose PVID table has the rows of ports 1..rows, which has no
\* vendor membership table, and which knows the name of the VLAN or not;
\* fault is the outcome of the PVID request if it is not a page
DevicesP ==
    [kind : {"pvid"}, rows : 1..MaxPorts, named : BOOLEAN,
     fault : {"none", "errorIndication", "raise"}]

\* the index lists the resolver is called with: one port, or port 1 and
\* another
IndexListsP == {<<i>> : i \in 1..MaxPorts} \cup {<<1, i>> : i \in 2..MaxPorts}

\* the agent's page for a bulk request that starts at the head of the
\* table base: the first max_repetitions rows and, if the table ends
\* before, the instance that follows the table
TableHead(base, rows, max_repetitions) ==
    LET n == IF rows < max_repetitions THEN rows ELSE max_repetitions
        page == [k \in 1..n |-> VarBind(base \o <<k>>, RawInt(PortVlan))]
    IN  IF n < max_repetitions
        THEN Append(page, VarBind(NextColumn(base), RawInt(1)))
        ELSE page

\* the agent's page for a table the device does not have
NoTable(base) == <<VarBind(NextColumn(base), RawInt(1))>>

InitPvid ==
    /\ pc = "Resolving"
    /\ emitted = <<>>
    /\ last_req = "none"
    /\ probe_reply = "page"
    /\ connected = "true"
    /\ interface_count = 20
    /\ est = [count |-> 0, iter |-> 0]
    /\ walk = [f \in CoreNames |-> [NoWalk EXCEPT !.status = "done"]]
    /\ \E ix \in IndexListsP : interface_data = IndexDict(ix)
    /\ vlan = [NoVlan EXCEPT !.pc = "pvid"]
    /\ power = NoPower
    /\ tw = NoTw
    /\ device \in DevicesP
    /\ conv = NoConv
    /\ hist = NoHist

\* _fetch_pvid_data against the device: the one request of lines 436-445
PvidFetch ==
    /\ pc = "Resolving"
    /\ vlan.pc = "pvid"
    /\ LET r == IF device.fault = "none"
                THEN Reply("page", TableHead(VLAN_OID_MAPPING["dot1qPvid"],
                                             device.rows, PvidMaxRepetitions))
                ELSE Reply(device.fault, <<>>)
       IN  /\ VlanPvidStep(FALSE, r)
           /\ hist' = [hist EXCEPT !.pvid = _fetch_pvid_data(r, interface_indices)]
    /\ UNCHANGED <<pc, emitted, probe_reply, connected, interface_count, est, walk,
                   interface_data, power, tw, device, conv>>

\* _fetch_cisco_vlan_data against the device
PvidCisco ==
    /\ pc = "Resolving"
    /\ vlan.pc = "cisco"
    /\ VlanCiscoStep(Reply("page", NoTable(VLAN_OID_MAPPING["vmVlan"])))
    /\ UNCHANGED <<pc, emitted, probe_reply, connected, interface_count, est, walk,
                   interface_data, power, tw, device, conv, hist>>

\* _fetch_vlan_names against the device
PvidNames ==
    /\ pc = "Resolving"
    /\ vlan.pc = "names"
    /\ LET base == VLAN_OID_MAPPING["dot1qVlanStaticName"]
       IN  VlanNamesStep(Reply("page",
               IF device.named
               THEN <<VarBind(base \o <<PortVlan>>, RawOctets(<<101>>))>> \o NoTable(base)
               ELSE NoTable(base)))
    /\ UNCHANGED <<pc, emitted, probe_reply, connected, interface_count, est, walk,
                   interface_data, power, tw, device, conv, hist>>

NextPvid ==
    \/ PvidFetch
    \/ PvidCisco
    \/ PvidNames

SpecPvid == InitPvid /\ [][NextPvid]_vars

\* ------------------------------------- the whole fetch against one device
\* the largest interface index of a modelled device
MaxIndexD == 2

\* the columns for which a modelled device has rows
LiveD == {"ifDescr", "ifOperStatus"}

NoFault == [col |-> "none", at |-> 0, kind |-> "none"]

\* what can go wrong with one request of one walk: the request number at
\* of the walk of column col ends as kind
FaultsD ==
    {NoFault} \cup [col : LiveD, at : 1..2, kind : {"errorIndication", "raise"}]

\* a device: the indices for which each live column has a row, one fault,
\* and whether it has a PVID table, VLAN names and power readings (for
\* index 1) or none of them
DevicesD ==
    [kind : {"walks"}, rows : [LiveD -> SUBSET (1..MaxIndexD)], fault : FaultsD,
     poe : BOOLEAN]

DeviceRows(f) == IF f \in LiveD THEN device.rows[f] ELSE {}

\* the agent's answer to the request of the walk of column f whose locals
\* are w: a page with the row that follows current_oid, or with the
\* instance that follows the column
DeviceReply(f, w) ==
    IF device.fault.col = f /\ device.fault.at = w.interfaces_found + 1
    THEN Reply(device.fault.kind, <<>>)
    ELSE LET after == IF w.current_oid = OID_MAPPING[f] THEN 0
                      ELSE w.current_oid[Len(w.current_oid)]
             rest == {i \in DeviceRows(f) : i > after}
         IN  IF rest = {}
             THEN Reply("page", <<VarBind(OutName(f), GoodRaw(f))>>)
             ELSE Reply("page", <<VarBind(InName(f, CHOOSE i \in rest :
                                                       \A j \in rest : i <= j),
                                          GoodRaw(f))>>)

\* the agent's answers to the requests of the resolvers
DevicePvidReply ==
    Reply("page", IF device.poe
                  THEN TableHead(VLAN_OID_MAPPING["dot1qPvid"], 1, PvidMaxRepetitions)
                  ELSE NoTable(VLAN_OID_MAPPING["dot1qPvid"]))

DeviceCiscoReply == Reply("page", NoTable(VLAN_OID_MAPPING["vmVlan"]))

DeviceNamesReply ==
    LET base == VLAN_OID_MAPPING["dot1qVlanStaticName"]
    IN  Reply("page", IF device.poe
                      THEN <<VarBind(base \o <<PortVlan>>, RawOctets(<<101>>))>>
                               \o NoTable(base)
                      ELSE NoTable(base))

DevicePowerReply(n) ==
    LET base == POWER_OID_MAPPING[n].oid
    IN  Reply("page", IF device.poe /\ n = 2
                      THEN <<VarBind(base \o <<1>>, RawInt(15400))>> \o NoTable(base)
                      ELSE NoTable(base))

InitDev ==
    /\ pc = "BulkFetch"
    /\ emitted = <<>>
    /\ last_req = "none"
    /\ probe_reply = "page"
    /\ connected = "true"
    /\ interface_count = 20
    /\ est = [count |-> 0, iter |-> 0]
    /\ walk = [f \in CoreNames |-> NoWalk]
    /\ interface_data = <<>>
    /\ vlan = NoVlan
    /\ power = NoPower
    /\ tw = NoTw
    /\ device \in DevicesD
    /\ conv = NoConv
    /\ hist = NoHist

\* one bulk_cmd round trip of the task walking column f; hist.order lists
\* the tasks that returned rows, in the order in which they returned
DevWalkStep(f) ==
    /\ pc = "Aggregating"
    /\ walk[f].status = "running"
    /\ LET w == WalkPage(f, walk[f], interface_count, DeviceReply(f, walk[f]))
       IN  /\ walk' = [walk EXCEPT ![f] = w]
           /\ hist' = IF w.status = "done" /\ w.oid_data # <<>>
                      THEN [hist EXCEPT !.order = Append(@, f)]
                      ELSE hist
    /\ last_req' = "walk"
    /\ UNCHANGED <<pc, emitted, probe_reply, connected, interface_count, est, interface_data,
                   vlan, power, tw, device, conv>>

\* hist.resolved_first is the resolver that returned first
ResolvedFirst(name, done) ==
    IF done /\ hist.resolved_first = "none"
    THEN [hist EXCEPT !.resolved_first = name]
    ELSE hist

DevPvid ==
    /\ pc = "Resolving"
    /\ vlan.pc = "pvid"
    /\ VlanPvidStep(FALSE, DevicePvidReply)
    /\ hist' = ResolvedFirst("vlan", vlan'.pc = "done")
    /\ UNCHANGED <<pc, emitted, probe_reply, connected, interface_count, est, walk,
                   interface_data, power, tw, device, conv>>

DevCisco ==
    /\ pc = "Resolving"
    /\ vlan.pc = "cisco"
    /\ VlanCiscoStep(DeviceCiscoReply)
    /\ hist' = ResolvedFirst("vlan", vlan'.pc = "done")
    /\ UNCHANGED <<pc, emitted, probe_reply, connected, interface_count, est, walk,
                   interface_data, power, tw, device, conv>>

DevNames ==
    /\ pc = "Resolving"
    /\ vlan.pc = "names"
    /\ VlanNamesStep(DeviceNamesReply)
    /\ hist' = ResolvedFirst("vlan", vlan'.pc = "done")
    /\ UNCHANGED <<pc, emitted, probe_reply, connected, interface_count, est, walk,
                   interface_data, power, tw, device, conv>>

DevPower ==
    /\ pc = "Resolving"
    /\ power.pc \in {"oid1", "oid2"}
    /\ PowerRound(FALSE, DevicePowerReply(IF power.pc = "oid1" THEN 1 ELSE 2))
    /\ hist' = ResolvedFirst("power", power'.pc = "done")
    /\ UNCHANGED <<pc, emitted, probe_reply, connected, interface_count, est, walk,
                   interface_data, vlan, tw, device, conv>>

NextDev ==
    \/ BulkFetchStart
    \/ \E f \in CoreNames : DevWalkStep(f)
    \/ Merge
    \/ DevPvid
    \/ DevCisco
    \/ DevNames
    \/ DevPower
    \/ Assemble
    \/ Finally

SpecDev == InitDev /\ [][NextDev]_vars

\* ------------------------------------------------ one power reading
\* the largest reading of the range of readings of a modelled device
MaxReadingF == 1100

\* the raw readings a modelled device holds for index 1: a range around
\* zero and the reading of a port that draws 15.4 W
ReadingsF == (-2..MaxReadingF) \cup {15400}

InitFmt ==
    /\ pc = "Resolving"
    /\ emitted = <<>>
    /\ last_req = "none"
    /\ probe_reply = "page"
    /\ connected = "true"
    /\ interface_count = 20
    /\ est = [count |-> 0, iter |-> 0]
    /\ walk = [f \in CoreNames |-> [NoWalk EXCEPT !.status = "done"]]
    /\ interface_data = IndexDict(<<1>>)
    /\ vlan = NoVlan
    /\ power = [NoPower EXCEPT !.pc = "oid1"]
    /\ tw = NoTw
    /\ \E v \in ReadingsF : device = [kind |-> "power", reading |-> v]
    /\ conv = NoConv
    /\ hist = NoHist

\* _get_power_data_bulk against the device: the first prefix has the
\* reading of index 1
FmtPower ==
    /\ pc = "Resolving"
    /\ power.pc \in {"oid1", "oid2"}
    /\ LET n == IF power.pc = "oid1" THEN 1 ELSE 2
           base == POWER_OID_MAPPING[n].oid
       IN  PowerRound(FALSE,
               Reply("page",
                     IF n = 1
                     THEN <<VarBind(base \o <<1>>, RawInt(device.reading))>> \o NoTable(base)
                     ELSE NoTable(base)))
    /\ UNCHANGED <<pc, emitted, probe_reply, connected, interface_count, est, walk,
                   interface_data, vlan, tw, device, conv, hist>>

NextFmt == FmtPower

SpecFmt == InitFmt /\ [][NextFmt]_vars

\* ================================================================ claims
NumSig(sig) == Cardinality({i \in 1..Len(emitted) : emitted[i].sig = sig})

Succeeded == \E i \in 1..Len(emitted) : emitted[i].sig = "success"

\* the record list of the success signal
SuccessList == emitted[CHOOSE i \in 1..Len(emitted) : emitted[i].sig = "success"].list

ErrorMsg == emitted[CHOOSE i \in 1..Len(emitted) : emitted[i].sig = "error"].msg

\* C1: every run delivers exactly one outcome: never more than one of
\* success and error is emitted, a finished run has emitted one, a success
\* carries a non-empty list with one record per aggregated index, and an
\* error carries one of the two messages of run.
C1_ExactlyOneOutcome ==
    /\ NumSig("success") + NumSig("error") <= 1
    /\ pc = "Done" => NumSig("success") + NumSig("error") = 1
    /\ Succeeded => Len(SuccessList) > 0 /\ Len(SuccessList) = Len(interface_data)
    /\ NumSig("error") = 1 =>
          ErrorMsg \in {"No interface data retrieved", "SNMP operation failed"}

C1_Witness == pc = "Done" /\ Succeeded /\ NumSig("error") = 0

\* C2: finished is emitted exactly once per run, on every exit path, and
\* after the success or the error of the run: a finished run has emitted
\* exactly <<outcome, finished>>, no run emits finished before its outcome,
\* and a run can stop only when it is finished.
C2_FinishedOnceAfterOutcome ==
    /\ pc = "Done" =>
          /\ Len(emitted) = 2
          /\ emitted[1].sig \in {"success", "error"}
          /\ emitted[2].sig = "finished"
    /\ pc # "Done" => NumSig("finished") = 0
    /\ pc = "Finally" => Len(emitted) = 1 /\ emitted[1].sig \in {"success", "error"}
    /\ pc \notin {"Done", "Walk"} => ENABLED Next

C2_Witness ==
    /\ pc = "Done"
    /\ emitted[1] = Signal("error", <<>>, "SNMP operation failed")
    /\ emitted[2].sig = "finished"

FetchEnded == pc \in {"Finally", "Done"} /\ connected # "none"

SomeWalkHasRows == \E f \in CoreNames : walk[f].oid_data # <<>>

\* C3: a fetch ends in error exactly when the probe returned false or the
\* aggregated map is empty; when the probe succeeded and some core walk
\* returned a row, the fetch succeeds with a non-empty list, whatever the
\* count estimation, the other walks and the resolvers did.
C3_FatalOnlyProbeOrEmpty ==
    FetchEnded =>
        /\ NumSig("error") = 1 <=> (connected = "false" \/ interface_data = <<>>)
        /\ (connected = "true" /\ SomeWalkHasRows) =>
              Succeeded /\ Len(SuccessList) > 0

C3_Witness ==
    /\ pc = "Done"
    /\ Succeeded
    /\ interface_count = 10
    /\ Cardinality({f \in CoreNames : walk[f].oid_data # <<>>}) = 1
    /\ SuccessList[1].VLAN = NA
    /\ SuccessList[1].Power = NA

\* C6: when the scalar read of the probe ends in an error indication, an
\* error status or an exception, the probe returns false, no later stage
\* is entered and no other request is issued, and the outcome is the error
\* "No interface data retrieved" with no success.
C6_ProbeFailureEndsFetch ==
    probe_reply \in {"errorIndication", "errorStatus", "raise"} =>
        /\ connected = "false"
        /\ pc \in {"Finally", "Done"}
        /\ last_req \in {"probe", "none"}
        /\ interface_count = 0
        /\ \A f \in CoreNames : walk[f] = NoWalk
        /\ vlan = NoVlan /\ power = NoPower
        /\ emitted[1] = Signal("error", <<>>, "No interface data retrieved")
        /\ ~Succeeded

C6_Witness == probe_reply = "errorStatus" /\ pc = "Done"

AggregationEmpty ==
    connected = "true" /\ pc \in {"Finally", "Done"} /\ interface_data = <<>>

\* C7 as stated: with the probe succeeded and an empty aggregated map the
\* fetch returns the error "no interfaces found" and no resolver is invoked.
C7_EmptyAggregationNamedError ==
    AggregationEmpty =>
        /\ emitted[1].sig = "error"
        /\ emitted[1].msg \in {"no interfaces found", "No interfaces found"}
        /\ vlan = NoVlan /\ power = NoPower

\* C7 amended: with the probe succeeded and an empty aggregated map the
\* fetch returns an empty list, which run reports as the error
\* "No interface data retrieved"; no resolver is invoked.
C7_EmptyAggregationGenericError ==
    AggregationEmpty =>
        /\ emitted[1] = Signal("error", <<>>, "No interface data retrieved")
        /\ ~Succeeded
        /\ vlan = NoVlan /\ power = NoPower
        /\ last_req \notin {"vlan", "power"}

C7_Witness == AggregationEmpty /\ pc = "Done" /\ AllDone

\* C10: the steps of a fetch are strictly ordered: a count or estimation
\* request is issued only after the probe returned true; no walk exists
\* and no walk request is issued before the interface count is known;
\* a VLAN or power request is issued, and a resolver is started, only
\* when all eight walks have returned; a success has been assembled only
\* when both resolvers have returned.
C10_StrictStepOrder ==
    /\ last_req \in {"count", "estimate"} => connected = "true" /\ probe_reply = "page"
    /\ pc \in {"Idle", "Probing"} => last_req \in {"none", "probe"} /\ connected = "none"
    /\ last_req = "walk" => pc = "Aggregating" /\ interface_count > 0
    /\ pc \in {"Idle", "Probing", "Counting", "Estimating", "BulkFetch"} =>
          /\ \A f \in CoreNames : walk[f] = NoWalk
          /\ last_req \notin {"walk", "vlan", "power"}
    /\ last_req \in {"vlan", "power"} => pc = "Resolving" /\ AllDone
    /\ (vlan # NoVlan \/ power # NoPower) => AllDone /\ interface_data # <<>>
    /\ Succeeded => vlan.pc = "done" /\ power.pc = "done"

C10_Witness ==
    /\ last_req = "power"
    /\ interface_count = 10
    /\ vlan.pc = "done"
    /\ power.pc = "done"
    /\ pc = "Resolving"

\* C4: once a page of the walk held an identifier that does not start with
\* the walked prefix, no further page request is issued for the table.
C4_NoRequestAfterForeignName == [][tw.seen_out => tw'.requests = tw.requests]_vars

\* C5: the rows the walk has stored never exceed max_interfaces, at any
\* point of the walk and in what it returns.
C5_RowsWithinLimit == Len(tw.w.oid_data) <= tw.max_interfaces

RecordFields ==
    {"Index", "Description", "OpStatus", "AdminStatus", "VLAN", "InOctets",
     "OutOctets", "Speed", "Type", "PhysAddress", "Power"}

\* the indices for which some core walk returned a row
WalkIndexSet == UNION {KeySet(walk[f].oid_data) : f \in CoreNames}

\* what the walk of oid_name returned for if_index, else the declared default
Walked(oid_name, if_index, default) == DictGet(walk[oid_name].oid_data, if_index, default)

\* C8: a success holds exactly one record for each index of some core walk
\* result, no other record and no index twice; every record has the eleven
\* fields, and Description, OpStatus, AdminStatus, InOctets, OutOctets and
\* Speed hold the walked value, or "Interface-<index>", 2, 2, 0, 0 and 0
\* when no walk returned the field for the index.
C8_OneRecordPerIndexWithDefaults ==
    Succeeded =>
        LET list == SuccessList
        IN  /\ {list[n].Index : n \in 1..Len(list)} = WalkIndexSet
            /\ Len(list) = Cardinality(WalkIndexSet)
            /\ \A n \in 1..Len(list) :
                  LET r == list[n]
                  IN  /\ DOMAIN r = RecordFields
                      /\ r.Description =
                            Walked("ifDescr", r.Index,
                                   <<"I", "n", "t", "e", "r", "f", "a", "c", "e", "-">>
                                       \o IntText(r.Index))
                      /\ r.OpStatus = Walked("ifOperStatus", r.Index, 2)
                      /\ r.AdminStatus = Walked("ifAdminStatus", r.Index, 2)
                      /\ r.InOctets = Walked("ifInOctets", r.Index, 0)
                      /\ r.OutOctets = Walked("ifOutOctets", r.Index, 0)
                      /\ r.Speed = Walked("ifSpeed", r.Index, 0)

C8_Witness ==
    /\ Succeeded
    /\ Len(SuccessList) = 2
    /\ walk["ifDescr"].oid_data = <<>>
    /\ Len(walk["ifOperStatus"].oid_data) = 1
    /\ \E n \in 1..2 : SuccessList[n].OpStatus = 2 /\ SuccessList[n].Speed # 0

\* C9: the record list of a success is in strictly ascending Index order.
C9_AscendingIndexOrder ==
    Succeeded =>
        \A m, n \in 1..Len(SuccessList) :
            m < n => SuccessList[m].Index < SuccessList[n].Index

\* C18: a call of _convert_snmp_value never raises, whatever the field and
\* the raw value; when the coercion of the value raises, the call returns
\* 0 for the six integer fields.
C18_ConvertNeverRaises ==
    conv.called =>
        /\ conv.exc = "none"
        /\ (conv.oid_name \in IntNames \cup CounterNames
               /\ IntOf(conv.value).exc # "none") => conv.v = 0

EstimateReturned == pc \in {"BulkFetch", "Aggregating", "Finally"}

\* C19: the estimate handed to the aggregation is an integer of at most
\* 64 on every path, and it is min(count + 5, 64) when the scalar read
\* returned the integer count; no path of the estimation raises.
C19_EstimateCapped ==
    /\ EstimateReturned =>
          /\ interface_count \in Int
          /\ interface_count <= 64
          /\ hist.count = "value" =>
                interface_count = (IF hist.n + 5 < 64 THEN hist.n + 5 ELSE 64)
    /\ \A i \in 1..Len(emitted) : emitted[i] # RunFailed

C19_Witness ==
    /\ pc = "BulkFetch"
    /\ hist.count = "value"
    /\ hist.n = 60
    /\ interface_count = 64

\* the scalar read ended in an error indication or status, and the first
\* request of the fallback walk yielded no entry of the description table
NoEntryAfterFailedCount ==
    /\ hist.count \in {"errorIndication", "errorStatus"}
    /\ hist.first \in {"errorIndication", "errorStatus", "out", "raise"}
    /\ pc \in {"BulkFetch", "Aggregating"}

\* C20 as stated: when the scalar read fails and the fallback walk yields
\* no entry, the estimate is the fixed default 20 and the walks are started
\* with that limit.
C20_EmptyFallbackGivesTwenty ==
    NoEntryAfterFailedCount =>
        /\ interface_count = 20
        /\ pc = "Aggregating" => \A f \in CoreNames : walk[f].status = "running"

\* C20 amended: when the scalar read fails and the fallback walk yields no
\* entry, the estimate is 10 if the first request of the walk returned an
\* error indication, an error status or an identifier outside the prefix,
\* and 20 if it raised; the walks are started with that limit.
C20_EmptyFallbackGivesTenOrTwenty ==
    NoEntryAfterFailedCount =>
        /\ interface_count = (IF hist.first = "raise" THEN 20 ELSE 10)
        /\ pc = "Aggregating" => \A f \in CoreNames : walk[f].status = "running"

C20_Witness ==
    /\ hist.count = "errorStatus"
    /\ hist.first = "out"
    /\ pc = "Aggregating"
    /\ interface_count = 10
    /\ walk["ifDescr"].status = "running"

\* the indices a resolver was called with
Requested == {interface_indices[n] : n \in 1..Len(interface_indices)}

\* C13: whatever the replies, error indications, error statuses and
\* exceptions included, a resolver is at one of its requests or has
\* returned; the keys of the returned map are exactly the requested
\* indices, each once, and an index for which no table supplied a value
\* maps to "N/A".
C13_ResolversTotal ==
    /\ vlan.pc \in {"none", "pvid", "cisco", "names", "vtp", "done"}
    /\ power.pc \in {"none", "oid1", "oid2", "done"}
    /\ vlan.pc = "done" =>
          /\ KeySet(vlan.vlan_data) = Requested
          /\ Len(vlan.vlan_data) = Cardinality(Requested)
          /\ \A i \in Requested :
                (~DictHas(hist.pvid, i) /\ ~DictHas(hist.cisco, i)) =>
                    DictGet(vlan.vlan_data, i, <<>>) = NA
    /\ power.pc = "done" =>
          /\ KeySet(power.power_data) = Requested
          /\ Len(power.power_data) = Cardinality(Requested)
          /\ \A i \in Requested :
                (~DictHas(hist.power1, i) /\ ~DictHas(hist.power2, i)) =>
                    DictGet(power.power_data, i, <<>>) = NA

C13_Witness ==
    /\ vlan.pc = "done"
    /\ Len(interface_indices) = 3
    /\ Len(hist.pvid) = 0
    /\ Len(hist.cisco) = 1
    /\ Cardinality({i \in Requested : DictGet(vlan.vlan_data, i, <<>>) = NA}) = 2

\* text is the PVID value p, bare or followed by a name in brackets
PvidDerived(text, p) == text = p \/ StartsWith(text, p \o <<" ", "(">>)

\* C15: an index for which the PVID table supplied a value keeps a value
\* derived from it, the bare id or "<id> (<name>)", whatever the vendor
\* membership table supplies for that index; the vendor value is written
\* only to indices without a PVID value.
C15_PvidPrecedence ==
    vlan.pc \in {"names", "vtp", "done"} =>
        \A i \in Requested :
            /\ DictHas(hist.pvid, i) =>
                  PvidDerived(DictGet(vlan.vlan_data, i, <<>>), DictGet(hist.pvid, i, <<>>))
            /\ (~DictHas(hist.pvid, i) /\ DictHas(hist.cisco, i)) =>
                  PvidDerived(DictGet(vlan.vlan_data, i, <<>>), DictGet(hist.cisco, i, <<>>))

C15_Witness ==
    /\ vlan.pc = "done"
    /\ \E i, j \in Requested :
          /\ DictHas(hist.pvid, i) /\ DictHas(hist.cisco, i)
          /\ DictGet(hist.pvid, i, <<>>) # DictGet(hist.cisco, i, <<>>)
          /\ StartsWith(DictGet(vlan.vlan_data, i, <<>>),
                        DictGet(hist.pvid, i, <<>>) \o <<" ", "(">>)
          /\ ~DictHas(hist.pvid, j) /\ DictHas(hist.cisco, j)

\* C17: the readings of a power result come from one prefix: the second
\* prefix is queried only while no reading is stored, and every value of
\* the result other than "N/A" is the reading of the first prefix that
\* supplied one.
C17_SinglePowerPrefix ==
    /\ power.pc = "oid2" => power.power_data = <<>>
    /\ power.pc = "done" =>
          LET winner == IF hist.power1 # <<>> THEN hist.power1 ELSE hist.power2
          IN  \A i \in Requested :
                  DictGet(power.power_data, i, <<>>) = DictGet(winner, i, NA)

\* C14: whatever the resolvers returned, a map for every index, a map for
\* some, or nothing after an exception, the success holds one record per
\* aggregated index, and the VLAN and Power columns hold the resolver's
\* value where it returned one and "N/A" elsewhere.
C14_ResolverGapsBecomeNA ==
    Succeeded =>
        /\ Len(SuccessList) = Cardinality(WalkIndexSet)
        /\ \A n \in 1..Len(SuccessList) :
              LET r == SuccessList[n]
              IN  /\ r.VLAN = (IF DictHas(vlan.vlan_data, r.Index)
                               THEN DictGet(vlan.vlan_data, r.Index, <<>>)
                               ELSE NA)
                  /\ r.Power = (IF DictHas(power.power_data, r.Index)
                                THEN DictGet(power.power_data, r.Index, <<>>)
                                ELSE NA)

C14_Witness ==
    /\ Succeeded
    /\ Len(SuccessList) = 2
    /\ vlan.vlan_data = <<>>
    /\ SuccessList[1].VLAN = NA
    /\ SuccessList[2].VLAN = NA
    /\ SuccessList[1].Power # NA
    /\ SuccessList[2].Power = NA

\* C16: against a device that answers the PVID request with a page, every
\* requested index that has a row in the device's PVID table ends with a
\* value derived from that row, the bare id or "<id> (<name>)", not with
\* "N/A", however many rows the table has.
C16_PvidTableWalkedToEnd ==
    (vlan.pc = "done" /\ device.kind = "pvid" /\ device.fault = "none") =>
        \A i \in Requested :
            i <= device.rows =>
                PvidDerived(DictGet(vlan.vlan_data, i, <<>>), IntText(PortVlan))

RECURSIVE SeqWalk(_, _)
\* the walk of column f run on its own against the device, from locals w
SeqWalk(f, w) ==
    IF w.status # "running" THEN w
    ELSE SeqWalk(f, WalkPage(f, w, interface_count, DeviceReply(f, w)))

\* the aggregated map when the eight walks run one after the other
AloneData ==
    MergeResults(<<>>,
                 [f \in CoreNames |-> SeqWalk(f, NewWalk(f, interface_count)).oid_data], 1)

\* the map of the VLAN resolver run on its own for the indices ix
AloneVlan(ix) ==
    LET pvid == _fetch_pvid_data(DevicePvidReply, ix)
        merged == IF NeedsCisco(pvid, ix)
                  THEN MergeMissing(pvid, _fetch_cisco_vlan_data(DeviceCiscoReply, ix), 1)
                  ELSE pvid
        names == IF Len(merged) > 0
                 THEN VlanNameTable(VLAN_OID_MAPPING["dot1qVlanStaticName"],
                                    DeviceNamesReply, 1, <<>>).vlan_names
                 ELSE <<>>
    IN  FillNA(Enhance(merged, names, 1), ix, 1)

\* the map of the power resolver run on its own for the indices ix
AlonePower(ix) ==
    LET first == PowerTry(POWER_OID_MAPPING[1].oid, DevicePowerReply(1), ix, <<>>)
        second == PowerTry(POWER_OID_MAPPING[2].oid, DevicePowerReply(2), ix,
                           first.power_data)
    IN  FillNA(IF first.stop THEN first.power_data ELSE second.power_data, ix, 1)

\* the fetch is past the merge of the walks' results
Aggregated == AllDone /\ pc \in {"Resolving", "Finally", "Done"}

\* C11: against a device that answers each request the same way whenever
\* it is sent, the aggregated map and the record list are those of the
\* walks and the resolvers run one after the other, in whatever order the
\* steps of the eight walks and of the two resolvers are taken.
C11_InterleavingIndependent ==
    device.kind = "walks" =>
        /\ Aggregated => interface_data = AloneData
        /\ Succeeded =>
              SuccessList = BuildResult(AloneData, AloneVlan(DictKeys(AloneData)),
                                        AlonePower(DictKeys(AloneData)))
        /\ (Aggregated /\ pc = "Done") => (Succeeded <=> AloneData # <<>>)

C11_Witness ==
    /\ pc = "Done"
    /\ Succeeded
    /\ Len(SuccessList) = 2
    /\ device.poe
    /\ hist.order = <<"ifOperStatus", "ifDescr">>
    /\ hist.resolved_first = "power"

\* C12: whichever walk fails, the aggregated map holds, for every index,
\* exactly the fields whose walk returned a row for that index, with the
\* value of that row, and the fetch succeeds when any walk returned a row.
C12_FailedWalksLeaveOthers ==
    (device.kind = "walks" /\ Aggregated) =>
        /\ KeySet(interface_data) = WalkIndexSet
        /\ \A i \in WalkIndexSet :
              LET row == DictGet(interface_data, i, <<>>)
              IN  /\ KeySet(row) \subseteq CoreNames
                  /\ \A f \in CoreNames :
                        /\ DictHas(row, f) <=> DictHas(walk[f].oid_data, i)
                        /\ DictHas(row, f) =>
                              DictGet(row, f, <<>>) = DictGet(walk[f].oid_data, i, <<>>)
        /\ (pc = "Done" /\ WalkIndexSet # {}) => (Succeeded /\ NumSig("error") = 0)

C12_Witness ==
    /\ pc = "Done"
    /\ Succeeded
    /\ device.fault = [col |-> "ifDescr", at |-> 1, kind |-> "raise"]
    /\ device.rows["ifDescr"] = {1, 2}
    /\ walk["ifDescr"].oid_data = <<>>
    /\ Len(SuccessList) = 2

\* the text of t tenths of a watt
TenthsText(t) == NatText(t \div 10) \o <<".">> \o NatText(t % 10) \o <<"W">>

\* C21: a positive raw reading v is rendered as watts with exactly one
\* decimal, the tenth nearest to v / 1000, followed by "W" (15400 gives
\* "15.4W"); a reading of zero or below is rendered as "0W".
C21_WattsOneDecimal ==
    (device.kind = "power" /\ power.pc = "done") =>
        LET v == device.reading
            text == DictGet(power.power_data, 1, <<>>)
        IN  /\ v <= 0 => text = <<"0", "W">>
            /\ v > 0 =>
                  \E t \in {v \div 100, v \div 100 + 1} :
                      /\ text = TenthsText(t)
                      /\ 100 * t - v <= 50
                      /\ v - 100 * t <= 50
            /\ v = 15400 => text = <<"1", "5", ".", "4", "W">>

C21_Witness ==
    /\ device.kind = "power"
    /\ power.pc = "done"
    /\ device.reading = 15400
    /\ DictGet(power.power_data, 1, <<>>) = <<"1", "5", ".", "4", "W">>

\* text holds, from position n on, the two lowercase hexadecimal digits
\* of byte b
HexAt(text, n, b) ==
    \E hi, lo \in 0..15 :
        /\ 16 * hi + lo = b
        /\ text[n] = HexDigits[hi + 1]
        /\ text[n + 1] = HexDigits[lo + 1]

\* C22: for the physical-address field a raw value of six bytes is
\* returned as six two-digit lowercase hexadecimal octets joined by
\* colons ([0x00,0x1a,0x2b,0x3c,0x4d,0x5e] gives "00:1a:2b:3c:4d:5e");
\* a raw string of any other length is returned in its plain string form.
C22_PhysAddressHex ==
    (conv.called /\ conv.oid_name = "ifPhysAddress" /\ conv.value.t = "OctetString") =>
        /\ conv.exc = "none"
        /\ Len(conv.value.b) = 6 =>
              /\ Len(conv.v) = 17
              /\ \A k \in 1..6 : HexAt(conv.v, 3 * k - 2, conv.value.b[k])
              /\ \A k \in 1..5 : conv.v[3 * k] = ":"
        /\ Len(conv.value.b) # 6 => conv.v = StrOf(conv.value).s
        /\ conv.value.b = <<0, 26, 43, 60, 77, 94>> =>
              conv.v = <<"0", "0", ":", "1", "a", ":", "2", "b", ":", "3", "c", ":",
                         "4", "d", ":", "5", "e">>

C22_Witness ==
    /\ conv.called
    /\ conv.oid_name = "ifPhysAddress"
    /\ conv.value = RawOctets(<<10, 255, 10, 10, 255, 255>>)
    /\ conv.v = <<"0", "a", ":", "f", "f", ":", "0", "a", ":", "0", "a", ":",
                  "f", "f", ":", "f", "f">>

\* C23: a request of the walk that returns an error indication or an
\* error status ends the walk, which returns exactly the rows stored
\* before that request; a walk that has ended issues no request.
C23_ErrorEndsWalkKeepingRows ==
    [][/\ tw'.last \in {"errorIndication", "errorStatus"} =>
             /\ tw'.w.status = "done"
             /\ tw'.w.oid_data = tw.w.oid_data
       /\ tw.w.status = "done" => tw'.requests = tw.requests]_vars

C23_Witness ==
    /\ tw.last = "errorStatus"
    /\ tw.requests = 2
    /\ tw.w.status = "done"
    /\ Len(tw.w.oid_data) = 2

\* C24: the walk stores no row that the device returned after an
\* identifier outside the prefix, in the same page or in a later one.
C24_NoRowAfterForeignName == ~tw.late_row

\* C25: every page either ends the walk or stores at least one row, so
\* the walk issues at most max_interfaces requests, whatever identifiers
\* the pages hold.
C25_WalkTerminates ==
    /\ tw.requests <= tw.max_interfaces
    /\ tw.w.status = "running" => tw.w.interfaces_found >= tw.requests

C25_Witness ==
    /\ tw.requests = 3
    /\ tw.max_interfaces = 3
    /\ tw.w.status = "done"
    /\ Len(tw.w.oid_data) = 1

\* C30: the walk stores only rows whose identifier lies under the prefix
\* segment by segment; the identifier of a sibling object whose text
\* begins with the text of the prefix stores no row.
C30_WholeSegmentPrefix == ~tw.foreign_row

\* the scalar read did not deliver a count
CountFailed == hist.count \in {"errorIndication", "errorStatus", "raise", "novalue"}

\* C26 as stated: whenever the scalar read fails, by error indication, by
\* error status or by a raised exception, the fallback walk is performed,
\* it issues at most 32 requests, and the estimate is max(observed, 10).
C26_FallbackOnEveryFailure ==
    (EstimateReturned /\ hist.count \in {"errorIndication", "errorStatus", "raise"}) =>
        /\ hist.first # "none"
        /\ hist.est_requests <= 32
        /\ interface_count = Max(hist.observed, 10)

\* C26 amended: the fallback walk is performed when the scalar read
\* returns an error indication or an error status, and only then; a read
\* that raises, or whose value is not an integer, gives 20 without a
\* request of the walk. The walk issues at most 32 requests and ends with
\* the first request that does not return an entry of the table; the
\* estimate is max(observed, 10), or 20 when a request of the walk raised
\* or returned an empty page.
C26_FallbackOnErrorReplyOnly ==
    /\ hist.est_requests <= 32
    /\ hist.observed <= hist.est_requests
    /\ hist.count \notin {"errorIndication", "errorStatus"} => hist.first = "none"
    /\ pc = "Estimating" =>
          /\ hist.count \in {"errorIndication", "errorStatus"}
          /\ hist.est_last \in {"none", "row"}
          /\ hist.observed = hist.est_requests
    /\ EstimateReturned =>
          /\ hist.count \in {"raise", "novalue"} => interface_count = 20
          /\ hist.count \in {"errorIndication", "errorStatus"} =>
                /\ hist.first # "none"
                /\ interface_count = (IF hist.est_last \in {"raise", "empty"} THEN 20
                                      ELSE Max(hist.observed, 10))
                /\ hist.est_last = "row" => hist.est_requests = 32

C26_Witness ==
    /\ pc = "BulkFetch"
    /\ hist.count = "errorIndication"
    /\ hist.est_requests = 13
    /\ hist.est_last = "out"
    /\ hist.observed = 12
    /\ interface_count = 12

\* the requests the VLAN resolver has issued so far
Asked(table) == InSeq(table, hist.asked)

\* C27: once the PVID table has been read and the resolver has moved past
\* the decision of line 397, the vendor membership table has been queried
\* exactly when the PVID step covered no requested index or fewer than
\* half of them; with exactly half or more covered it is not queried
C27_VendorTableWhenUnderHalf ==
    (Asked("dot1qPvid") /\ vlan.pc \in {"names", "vtp", "done"})
        => (Asked("vmVlan")
                <=> (Len(hist.pvid) = 0
                        \/ 2 * Len(hist.pvid) < Cardinality(Requested)))

\* the PVID step covered exactly half of the requested indices and the
\* vendor table was left alone, the names were read next
C27_Witness ==
    /\ Cardinality(Requested) = 2
    /\ Len(hist.pvid) = 1
    /\ Asked("dot1qVlanStaticName")
    /\ ~Asked("vmVlan")
    /\ vlan.pc = "done"

\* the VLAN ids resolved by the PVID and the vendor steps
Resolved == Len(hist.pvid) > 0 \/ Len(hist.cisco) > 0

\* C28: when the resolver has finished, the standard name table was read
\* exactly when a VLAN id had been resolved, no name table was read
\* otherwise, and whenever the read of the standard table failed, by an
\* error indication, an error status or an exception, the vendor name table
\* was read
C28_VendorNamesOnEveryFailure ==
    vlan.pc = "done"
        => /\ Resolved => Asked("dot1qVlanStaticName")
           /\ ~Resolved => ~Asked("dot1qVlanStaticName") /\ ~Asked("vtpVlanName")
           /\ hist.names_end \in {"errorIndication", "errorStatus", "raise"}
                  => Asked("vtpVlanName")

\* the value of index i before the names were applied: the PVID when the
\* PVID step covered i, else the vendor value, else nothing
BareValue(i) ==
    IF DictHas(hist.pvid, i) THEN DictGet(hist.pvid, i, NA)
    ELSE DictGet(hist.cisco, i, NA)

\* C29: when the resolver has finished, an index whose value before the
\* names was a bare numeric VLAN id present in the name map has the value
\* "<id> (<name>)", whether the id came from the PVID or the vendor table;
\* every other index has the value it had: an id absent from the name map
\* stays bare and an index without a value has "N/A"
C29_NamesApplied ==
    vlan.pc = "done"
        => \A i \in Requested :
              LET bare == BareValue(i)
                  vlan_id == ParseInt(bare).n
                  final == DictGet(vlan.vlan_data, i, <<>>)
              IN  IF bare # NA /\ IsDigitText(bare) /\ DictHas(vlan.vlan_names, vlan_id)
                  THEN final = bare \o <<" ", "(">>
                                   \o DictGet(vlan.vlan_names, vlan_id, <<>>) \o <<")">>
                  ELSE final = bare

\* one index got its id from the PVID table and another from the vendor
\* table, both ids are named; a third index has no value and keeps "N/A"
C29_Witness ==
    /\ vlan.pc = "done"
    /\ \E i, j, k \in Requested :
          /\ DictHas(hist.pvid, i)
          /\ ~DictHas(hist.pvid, j) /\ DictHas(hist.cisco, j)
          /\ DictGet(vlan.vlan_data, i, <<>>) = <<"1", "0", " ", "(", "e", ")">>
          /\ DictGet(vlan.vlan_data, j, <<>>) = <<"2", "0", " ", "(", "e", ")">>
          /\ DictGet(vlan.vlan_data, k, <<>>) = NA

====
